---- MODULE Spec2Model ----
(***************************************************************************)
(* A model of the WIM archive engine: the chunked resource reader          *)
(* (src/src/resource.c), the NTFS-3g apply back-end                        *)
(* (src/src/ntfs-3g_apply.c), the image-level operations on the lookup     *)
(* table (modify.c, ntfs-capture.c) and the inference of an image's        *)
(* Windows properties (src/src/xml_windows.c).                             *)
(*                                                                         *)
(* The subsystems share no state.  Each has its own specification         *)
(* (SpecResource, SpecTable, SpecPool, SpecApply, SpecCreate, SpecSd,      *)
(* SpecWim, SpecExport, SpecSdSet, SpecScan, SpecXml, SpecEntry, SpecFw,   *)
(* SpecLang); the variables of the others are held at their initial value. *)
(***************************************************************************)
EXTENDS Integers, Sequences, FiniteSets, TLC

VARIABLES res, rd, job, ap, ctx, i_visited, ntfs, drv, wim, cap, fps, readers,
          img, vol, sd, sds, scan, xml, ent, fw, lang

varsRes == <<res, rd>>

varsApply == <<job, ap, ctx, i_visited, ntfs, drv>>

varsWim == <<wim, cap>>

varsPool == <<fps, readers>>

varsCreate == <<img, vol>>

varsSd == <<sd>>

varsMore == <<sds, scan, xml, ent, fw, lang>>

vars ==
    <<res, rd, job, ap, ctx, i_visited, ntfs, drv, wim, cap, fps, readers, img, vol,
      sd, sds, scan, xml, ent, fw, lang>>

(***************************************************************************)
(* Bounds of the model.                                                    *)
(***************************************************************************)
\* Largest number of chunks of a modelled resource.
MaxChunks == 3
\* Stored size of a chunk that the codec did compress.
CompSize == 100
\* Bytes that follow the resource in the archive file when it is not the
\* last thing in the file.
Trailing == 70000
\* The consumer of an extraction fails at its MaxFail-th call at the latest.
MaxFail == 2
\* By how much a damaged chunk table entry or stored size is off.
Skew == 40000
\* A last chunk shorter than a full chunk, other than one byte.
Residue == 1000
\* By how much the stored size of a chunk may exceed WIM_CHUNK_SIZE before it
\* counts as corrupt.
Slack == 4096
\* Directories below the root, and nondirectory inodes, of an extracted tree.
MaxDirs == 1
MaxFiles == 2
\* Most streams that one blob is extracted to.
MaxTargets == 2
\* Most blobs in one extraction, and most chunks of a blob.
MaxBlobs == 2
MaxBlobChunks == 2
\* Size of a blob that fits a reparse point.
SmallBlob == 100
\* Most images of an archive, and most calls made on one archive.
MaxImages == 2
MaxCalls == 3

MaxFaults == 1

MaxSeeks == 3

\* Largest number of streams of an inode.
MaxStreams == 2

\* Largest number of sub-authorities of a SID.
MaxSubAuthorities == 2

\* Number of threads that read the archive at once.
MaxReaders == 2
\* Largest buffer handed to full_write(), most interrupted writes of one
\* call, and the most bytes the descriptor is let receive.
MaxBuf == 4

MaxEintr == 2

MaxTotal == 8

\* The entries of the language table a search is let look at, and the ids
\* asked for: all that 16 bits hold.
MaxProbes == 16

MaxLanguageId == 65535

\* The calls of sd_set_add_sd() followed.
MaxSdAdds == 4

\* The most paths a capture configuration excludes.
MaxExcluded == 2

(***************************************************************************)
(* Program constants.                                                      *)
(***************************************************************************)
WIM_CHUNK_SIZE == 32768
REPARSE_DATA_MAX_SIZE == 16376

SUCCESS == "SUCCESS"
WIMLIB_ERR_NTFS_3G == "WIMLIB_ERR_NTFS_3G"
WIMLIB_ERR_INVALID_REPARSE_DATA == "WIMLIB_ERR_INVALID_REPARSE_DATA"
WIMLIB_ERR_SET_REPARSE_DATA == "WIMLIB_ERR_SET_REPARSE_DATA"
WIMLIB_ERR_ABORTED_BY_PROGRESS == "WIMLIB_ERR_ABORTED_BY_PROGRESS"
WIMLIB_ERR_STAT == "WIMLIB_ERR_STAT"
WIMLIB_ERR_NOMEM == "WIMLIB_ERR_NOMEM"
WIMLIB_ERR_INVALID_IMAGE == "WIMLIB_ERR_INVALID_IMAGE"
WIMLIB_ERR_READ == "WIMLIB_ERR_READ"
WIMLIB_ERR_DECOMPRESSION == "WIMLIB_ERR_DECOMPRESSION"
WIMLIB_ERR_INVALID_RESOURCE_HASH == "WIMLIB_ERR_INVALID_RESOURCE_HASH"
WIMLIB_ERR_WRITE == "WIMLIB_ERR_WRITE"
WIMLIB_ERR_OPEN == "WIMLIB_ERR_OPEN"
WIMLIB_ERR_INVALID_PARAM == "WIMLIB_ERR_INVALID_PARAM"
WIMLIB_ERR_IMAGE_NAME_COLLISION == "WIMLIB_ERR_IMAGE_NAME_COLLISION"
\* The process did not survive undefined behaviour.
CRASH == "CRASH"

Min(a, b) == IF a < b THEN a ELSE b

(***************************************************************************)
(* A C `unsigned' (32 bits), held as <<high 16 bits, low 16 bits>>.        *)
(***************************************************************************)
\* The value x is truncated to when it is stored in an unsigned.
ToUnsigned(x) == <<(x \div 65536) % 65536, x % 65536>>

\* min(u, n) for an unsigned u and an n below 2^31.
MinUnsigned(u, n) ==
    IF u[1] >= 32768 THEN n ELSE Min(u[1] * 65536 + u[2], n)

(***************************************************************************)
(* Byte sequences.  A byte sequence is a sequence of runs <<src, lo, n>>:  *)
(* n bytes that are bytes lo .. lo+n-1 of the source src.  Source "orig"   *)
(* is the uncompressed content the resource was written from, "garbled" a  *)
(* content that differs from it in every byte, "junk" the archive file     *)
(* itself read at the wrong place.  Adjacent runs are kept merged, so      *)
(* equal byte sequences are equal values.                                  *)
(***************************************************************************)
AppendRun(data, src, lo, n) ==
    IF n = 0 THEN data
    ELSE IF Len(data) > 0 /\ data[Len(data)][1] = src
                          /\ data[Len(data)][2] + data[Len(data)][3] = lo
         THEN [data EXCEPT ![Len(data)] = <<src, @[2], @[3] + n>>]
         ELSE Append(data, <<src, lo, n>>)

RECURSIVE Concat(_, _)
Concat(data, more) ==
    IF more = <<>> THEN data
    ELSE Concat(AppendRun(data, more[1][1], more[1][2], more[1][3]), Tail(more))

RECURSIVE DataLen(_)
DataLen(data) == IF data = <<>> THEN 0 ELSE data[1][3] + DataLen(Tail(data))

\* Bytes lo .. lo+n-1 of the original content.
Orig(lo, n) == AppendRun(<<>>, "orig", lo, n)

SrcCode(src) == CASE src = "orig" -> 1 [] src = "garbled" -> 2 [] OTHER -> 3

\* The message digest of a byte sequence: a many-to-one function of the bytes.
RECURSIVE Sha1From(_, _)
Sha1From(h, data) ==
    IF data = <<>> THEN h
    ELSE Sha1From((h * 31 + SrcCode(data[1][1]) * 7 + data[1][2] + 3 * data[1][3]) % 65521,
                  Tail(data))

sha1_buffer(data) == Sha1From(1, data)

(***************************************************************************)
(* The archive file around one compressed resource, and the resource's     *)
(* lookup table entry.  File positions are relative to resource_offset.    *)
(*   original_size  uncompressed size recorded in the resource entry       *)
(*   size           stored size recorded in the resource entry             *)
(*   tab            the chunk table as stored: entry k is the offset of    *)
(*                  chunk k (chunk 0 has no entry)                         *)
(*   tsz            the stored size of each chunk's data as it lies in the *)
(*                  file                                                   *)
(*   integ          per chunk: "ok", "garbled" (reads back as other        *)
(*                  bytes), "bad" (the codec rejects it)                   *)
(*   flen           number of bytes the file holds from resource_offset on *)
(*   lenient        whether the codec accepts data that is no chunk        *)
(*   seek_fail      the fseeko() of a call that fails, counted from 1      *)
(*                  (0: none does)                                         *)
(*   ctype          the resource's compression type                        *)
(*   hash           the SHA-1 recorded in the lookup table entry           *)
(***************************************************************************)
NumChunks(usize) == (usize + WIM_CHUNK_SIZE - 1) \div WIM_CHUNK_SIZE

\* ChunkUsize() without the case of a remainder of 0.
ChunkUsize_remainder(usize, i) ==
    IF i # NumChunks(usize) - 1 THEN WIM_CHUNK_SIZE
    ELSE usize % WIM_CHUNK_SIZE

\* Uncompressed size of chunk i (counted from 0) of a resource of size usize.
ChunkUsize(usize, i) ==
    IF i # NumChunks(usize) - 1 THEN WIM_CHUNK_SIZE
    ELSE IF usize % WIM_CHUNK_SIZE = 0 THEN WIM_CHUNK_SIZE
         ELSE usize % WIM_CHUNK_SIZE

\* 8 when usize >= 2^32, else 4.
ChunkEntrySize(usize) == IF usize \div 65536 >= 65536 THEN 8 ELSE 4

ChunkTableSize(usize) == ChunkEntrySize(usize) * (NumChunks(usize) - 1)

RECURSIVE SumTo(_, _)
SumTo(seq, k) == IF k = 0 THEN 0 ELSE seq[k] + SumTo(seq, k - 1)

\* File position of the data of chunk j (counted from 0).
TrueStart(r, j) == ChunkTableSize(r.original_size) + SumTo(r.tsz, j)

TrueEnd(r) == ChunkTableSize(r.original_size) + SumTo(r.tsz, Len(r.tsz))

\* The chunks whose data the file holds as written by the codec / verbatim.
StoredRaw(r, j) == r.tsz[j + 1] = ChunkUsize(r.original_size, j)

\* fread(): the number of bytes obtained when n bytes are asked for at pos.
Fread(r, pos, n) == IF pos >= r.flen THEN 0 ELSE Min(n, r.flen - pos)

\* The same for a size held in an unsigned.
FreadUnsigned(r, pos, u) ==
    IF pos >= r.flen THEN 0 ELSE MinUnsigned(u, r.flen - pos)

\* The bytes the file holds at [pos, pos+n), as uncompressed content.
RawRun(r, pos, n) ==
    LET hit == {j \in 0 .. Len(r.tsz) - 1 :
                   /\ StoredRaw(r, j)
                   /\ TrueStart(r, j) <= pos
                   /\ pos + n <= TrueStart(r, j) + r.tsz[j + 1]}
    IN  IF hit = {} THEN <<"junk", pos, n>>
        ELSE LET j == CHOOSE x \in hit : TRUE
             IN  <<IF r.integ[j + 1] = "ok" THEN "orig" ELSE "garbled",
                   j * WIM_CHUNK_SIZE + (pos - TrueStart(r, j)), n>>

\* lzx_decompress() / xpress_decompress() on the csize bytes read at pos,
\* expected to expand to usize bytes: the run of usize bytes produced, or
\* a run of source "fail" when the codec rejects the data.
Decompress(r, pos, csize, usize) ==
    LET hit == {j \in 0 .. Len(r.tsz) - 1 :
                   /\ ~StoredRaw(r, j)
                   /\ TrueStart(r, j) = pos
                   /\ r.tsz[j + 1] = csize
                   /\ ChunkUsize(r.original_size, j) = usize}
    IN  IF hit = {}
        THEN IF r.lenient THEN <<"junk", pos, usize>> ELSE <<"fail", 0, 0>>
        ELSE LET j == CHOOSE x \in hit : TRUE
             IN  CASE r.integ[j + 1] = "ok" -> <<"orig", j * WIM_CHUNK_SIZE, usize>>
                   [] r.integ[j + 1] = "garbled" -> <<"garbled", j * WIM_CHUNK_SIZE, usize>>
                   [] OTHER -> <<"fail", 0, 0>>

\* Entry idx (counted from 0) of the chunk table as it is stored in the file.
TabEntry(r, idx) == IF idx + 1 \in DOMAIN r.tab THEN r.tab[idx + 1] ELSE 0

(***************************************************************************)
(* read_compressed_resource().  The state of its chunk loop:               *)
(*   ret       SUCCESS while the loop runs, else the value returned        *)
(*   pos       position of the FILE                                        *)
(*   out       the bytes written to contents_ret so far                    *)
(*   chunks    the chunk indices the loop has processed, in order          *)
(*   bufreads  for each fread() into compressed_buf: <<chunk, size asked,  *)
(*             bytes obtained>>                                            *)
(*   codec     for each call of the decompressor: <<chunk, compressed      *)
(*             size, uncompressed size, whether it accepted the data>>     *)
(*   overflow  an fread() stored more bytes than compressed_buf holds      *)
(*   tabread   the part of the chunk table read: <<position, bytes>>       *)
(*   seeks     the calls of fseeko() made                                  *)
(***************************************************************************)
\* chunk_offsets[k] as filled from the table slice (and the implicit 0).
chunk_offsets(r, start_chunk, k) ==
    IF start_chunk = 0
    THEN IF k = 0 THEN 0 ELSE TabEntry(r, k - 1)
    ELSE TabEntry(r, (start_chunk - 1) + k)

\* The difference of offsets that gives the compressed size of chunk i.
derived_chunk_size(r, start_chunk, i) ==
    (IF i # NumChunks(r.original_size) - 1
     THEN chunk_offsets(r, start_chunk, i + 1 - start_chunk)
     ELSE r.size - ChunkTableSize(r.original_size))
    - chunk_offsets(r, start_chunk, i - start_chunk)

\* unsigned compressed_chunk_size
compressed_chunk_size(r, start_chunk, i) ==
    ToUnsigned(derived_chunk_size(r, start_chunk, i))

\* An uncompressed chunk: got bytes were obtained for the part needed, which
\* lies at file position at and holds the bytes run.
ReadRawChunk(st, i, at, partial_chunk_size, got, run) ==
    IF got # partial_chunk_size
    THEN [st EXCEPT !.chunks = Append(@, i),
                    !.ret = WIMLIB_ERR_READ,
                    !.pos = at + got]
    ELSE [st EXCEPT !.chunks = Append(@, i),
                    !.pos = at + got,
                    !.out = AppendRun(@, run[1], run[2], run[3])]

\* A compressed chunk: got bytes were obtained for compressed_buf, which the
\* codec turns into cooked.
ReadCompressedChunk(st, i, csize, usize, start_offset, partial_chunk_size, got, cooked) ==
    IF ToUnsigned(got) # csize
    THEN [st EXCEPT !.chunks = Append(@, i),
                    !.bufreads = Append(@, <<i, csize, got>>),
                    !.overflow = @ \/ got > WIM_CHUNK_SIZE - 1,
                    !.pos = st.pos + got,
                    !.ret = WIMLIB_ERR_READ]
    ELSE [st EXCEPT !.chunks = Append(@, i),
                    !.bufreads = Append(@, <<i, csize, got>>),
                    !.overflow = @ \/ got > WIM_CHUNK_SIZE - 1,
                    !.pos = st.pos + got,
                    !.codec = Append(@, <<i, csize, usize, cooked[1] # "fail">>),
                    !.ret = IF cooked[1] = "fail" THEN WIMLIB_ERR_DECOMPRESSION
                            ELSE @,
                    !.out = IF cooked[1] = "fail" THEN @
                            ELSE AppendRun(@, cooked[1], cooked[2] + start_offset,
                                           partial_chunk_size)]

\* ReadChunkData() that hands every chunk to the codec.
ReadChunkData_codec_always(r, st, i, csize, usize, start_offset, partial_chunk_size) ==
    ReadCompressedChunk(st, i, csize, usize, start_offset, partial_chunk_size,
                        FreadUnsigned(r, st.pos, csize),
                        Decompress(r, st.pos, FreadUnsigned(r, st.pos, csize),
                                   usize))

\* The body of the loop over the chunks for chunk i, once the sizes of the
\* chunk and the part of it that is needed are known.
ReadChunkData(r, st, i, csize, usize, start_offset, partial_chunk_size) ==
    IF csize = ToUnsigned(usize)
    THEN \* Probably an uncompressed chunk
         IF start_offset # 0 /\ st.seeks + 1 = r.seek_fail
         THEN [st EXCEPT !.chunks = Append(@, i), !.seeks = @ + 1,
                         !.ret = WIMLIB_ERR_READ]
         ELSE ReadRawChunk([st EXCEPT !.seeks = IF start_offset # 0 THEN @ + 1
                                                ELSE @],
                           i, st.pos + start_offset, partial_chunk_size,
                           Fread(r, st.pos + start_offset, partial_chunk_size),
                           RawRun(r, st.pos + start_offset, partial_chunk_size))
    ELSE \* Compressed chunk
         ReadCompressedChunk(st, i, csize, usize, start_offset, partial_chunk_size,
                             FreadUnsigned(r, st.pos, csize),
                             Decompress(r, st.pos, FreadUnsigned(r, st.pos, csize),
                                        usize))

\* start_offset() with the first chunk always taken from its beginning.
start_offset_whole(i, offset) == 0

\* How much of chunk i a read of [offset, offset+len) needs.
start_offset(i, offset) ==
    IF i = offset \div WIM_CHUNK_SIZE THEN offset % WIM_CHUNK_SIZE ELSE 0

end_offset(i, offset, len) ==
    IF i = (offset + len - 1) \div WIM_CHUNK_SIZE
    THEN (offset + len - 1) % WIM_CHUNK_SIZE
    ELSE WIM_CHUNK_SIZE - 1

\* One iteration of the loop over the chunks, for chunk i.
ReadChunk(r, st, i, offset, len) ==
    ReadChunkData(r, st, i,
                  compressed_chunk_size(r, offset \div WIM_CHUNK_SIZE, i),
                  ChunkUsize(r.original_size, i),
                  start_offset(i, offset),
                  end_offset(i, offset, len) + 1 - start_offset(i, offset))

RECURSIVE ReadChunks(_, _, _, _, _)
\* ReadChunks() that stops before the chunk the read ends in.
ReadChunks_before_end(r, st, i, offset, len) ==
    IF i >= (offset + len - 1) \div WIM_CHUNK_SIZE \/ st.ret # SUCCESS THEN st
    ELSE ReadChunks(r, ReadChunk(r, st, i, offset, len), i + 1, offset, len)

\* The loop over the chunks start_chunk .. end_chunk, from chunk i on.
ReadChunks(r, st, i, offset, len) ==
    IF i > (offset + len - 1) \div WIM_CHUNK_SIZE \/ st.ret # SUCCESS THEN st
    ELSE ReadChunks(r, ReadChunk(r, st, i, offset, len), i + 1, offset, len)

read_compressed_resource(r, len, offset) ==
    LET idle == [ret |-> SUCCESS, pos |-> 0, out |-> <<>>, chunks |-> <<>>,
                 bufreads |-> <<>>, codec |-> <<>>, overflow |-> FALSE,
                 tabread |-> <<0, 0>>, seeks |-> 0]
        start_chunk == offset \div WIM_CHUNK_SIZE
        end_chunk == (offset + len - 1) \div WIM_CHUNK_SIZE
        num_chunks == NumChunks(r.original_size)
        num_needed_chunks == (end_chunk - start_chunk + 1)
                               + (IF end_chunk # num_chunks - 1 THEN 1 ELSE 0)
        start_table_idx == IF start_chunk = 0 THEN 0 ELSE start_chunk - 1
        num_needed_chunk_entries == IF start_chunk = 0 THEN num_needed_chunks - 1
                                    ELSE num_needed_chunks
        size == num_needed_chunk_entries * ChunkEntrySize(r.original_size)
        tabpos == start_table_idx * ChunkEntrySize(r.original_size)
    IN  IF len = 0 THEN idle
        ELSE IF r.seek_fail = 1
        THEN [idle EXCEPT !.ret = WIMLIB_ERR_READ, !.seeks = 1]
        ELSE IF Fread(r, tabpos, size) # size
        THEN [idle EXCEPT !.ret = WIMLIB_ERR_READ, !.tabread = <<tabpos, size>>,
                          !.seeks = 1]
        ELSE IF r.seek_fail = 2
        THEN [idle EXCEPT !.ret = WIMLIB_ERR_READ, !.tabread = <<tabpos, size>>,
                          !.seeks = 2]
        ELSE ReadChunks(r,
                        [idle EXCEPT !.tabread = <<tabpos, size>>,
                                     !.seeks = 2,
                                     !.pos = ChunkTableSize(r.original_size)
                                               + chunk_offsets(r, start_chunk, 0)],
                        start_chunk, offset, len)

\* read_uncompressed_resource(): seek + bulk read of len bytes at offset.
read_uncompressed_resource(r, offset, len) ==
    LET idle == [ret |-> SUCCESS, pos |-> offset, out |-> <<>>, chunks |-> <<>>,
                 bufreads |-> <<>>, codec |-> <<>>, overflow |-> FALSE,
                 tabread |-> <<0, 0>>, seeks |-> 0]
        got == Fread(r, offset, len)
    IN  IF r.seek_fail = 1 THEN [idle EXCEPT !.ret = WIMLIB_ERR_READ, !.seeks = 1]
        ELSE IF got # len
        THEN [idle EXCEPT !.ret = WIMLIB_ERR_READ, !.pos = offset + got,
                          !.seeks = 1]
        ELSE [idle EXCEPT !.pos = offset + got, !.seeks = 1,
                          !.out = AppendRun(<<>>, IF r.integ[1] = "ok" THEN "orig"
                                                  ELSE "garbled", offset, len)]

\* read_wim_resource() for a resource in the WIM file, flags = 0.
read_wim_resource(r, size, offset) ==
    IF r.ctype = "NONE" THEN read_uncompressed_resource(r, offset, size)
    ELSE read_compressed_resource(r, size, offset)

wim_resource_size(r) == r.original_size

\* read_full_wim_resource()
read_full_wim_resource(r) == read_wim_resource(r, wim_resource_size(r), 0)

(***************************************************************************)
(* extract_wim_resource().  The state of its loop:                         *)
(*   ret        SUCCESS while the loop runs, else the value returned       *)
(*   offset     offset of the next piece                                   *)
(*   ctx        the bytes fed to sha1_update() so far                      *)
(*   delivered  the calls of extract_chunk: <<offset, length, bytes>>      *)
(*   reads      for each read_wim_resource(): the chunk indices processed  *)
(* fail_at = k > 0 makes the k-th call of extract_chunk return an error.   *)
(* ub is what a read_wim_resource() that wrote past the end of             *)
(* compressed_buf comes back with.                                         *)
(***************************************************************************)
\* The value a read comes back with.
ReadRet(got, ub) == IF got.overflow THEN ub ELSE got.ret

\* What buf holds after a read of to_read bytes that came back with 0.
BufAfter(got, at, to_read) ==
    IF DataLen(got.out) = to_read THEN got.out
    ELSE AppendRun(<<>>, "junk", at, to_read)

\* ExtractStep() with every piece handed on as if it began the resource.
ExtractStep_offset0(st, to_read, check_hash, fail_at, chunks, overflow, ret, bytes) ==
    IF ret # SUCCESS
    THEN [st EXCEPT !.ret = ret, !.reads = Append(@, chunks),
                    !.overflow = @ \/ overflow]
    ELSE [st EXCEPT !.ctx = IF check_hash THEN Concat(@, bytes) ELSE @,
                    !.delivered = Append(@, <<0, to_read, bytes>>),
                    !.reads = Append(@, chunks),
                    !.overflow = @ \/ overflow,
                    !.ret = IF Len(st.delivered) + 1 = fail_at THEN WIMLIB_ERR_WRITE
                            ELSE @,
                    !.offset = IF Len(st.delivered) + 1 = fail_at THEN @
                               ELSE @ + to_read]

\* The loop's state after a piece was read and handed on: the read came back
\* with ret and left bytes in buf.
ExtractStep(st, to_read, check_hash, fail_at, chunks, overflow, ret, bytes) ==
    IF ret # SUCCESS
    THEN [st EXCEPT !.ret = ret, !.reads = Append(@, chunks),
                    !.overflow = @ \/ overflow]
    ELSE [st EXCEPT !.ctx = IF check_hash THEN Concat(@, bytes) ELSE @,
                    !.delivered = Append(@, <<st.offset, to_read, bytes>>),
                    !.reads = Append(@, chunks),
                    !.overflow = @ \/ overflow,
                    !.ret = IF Len(st.delivered) + 1 = fail_at THEN WIMLIB_ERR_WRITE
                            ELSE @,
                    !.offset = IF Len(st.delivered) + 1 = fail_at THEN @
                               ELSE @ + to_read]

\* One iteration of the loop, read_wim_resource() having given got.
ExtractPiece(st, to_read, check_hash, fail_at, ub, got) ==
    ExtractStep(st, to_read, check_hash, fail_at, got.chunks, got.overflow,
                ReadRet(got, ub), BufAfter(got, st.offset, to_read))

RECURSIVE ExtractLoop(_, _, _, _, _)
ExtractLoop(r, st, size, fail_at, ub) ==
    IF size - st.offset = 0 \/ st.ret # SUCCESS THEN st
    ELSE ExtractLoop(r,
             ExtractPiece(st, Min(size - st.offset, Min(WIM_CHUNK_SIZE, size)),
                          size = wim_resource_size(r), fail_at, ub,
                          read_wim_resource(r, Min(size - st.offset,
                                                   Min(WIM_CHUNK_SIZE, size)),
                                            st.offset)),
             size, fail_at, ub)

\* The end of extract_wim_resource(), after the loop.
ExtractEnd(r, size, looped) ==
    IF looped.ret = SUCCESS /\ size = wim_resource_size(r)
                            /\ sha1_buffer(looped.ctx) # r.hash
    THEN [looped EXCEPT !.ret = WIMLIB_ERR_INVALID_RESOURCE_HASH]
    ELSE looped

extract_wim_resource(r, size, fail_at, ub) ==
    ExtractEnd(r, size,
               ExtractLoop(r, [ret |-> SUCCESS, offset |-> 0, ctx |-> <<>>,
                               delivered |-> <<>>, reads |-> <<>>,
                               overflow |-> FALSE], size, fail_at, ub))

(***************************************************************************)
(* The resources and archive files the reader is run on.                   *)
(***************************************************************************)
\* The resource of uncompressed size usize whose chunks are stored as kinds
\* says ("raw" or "comp"), laid out and described as the writer does.
WellFormed(usize, kinds, ctype) ==
    LET n == NumChunks(usize)
        tsz == [j \in 1 .. n |-> IF kinds[j] = "raw" THEN ChunkUsize(usize, j - 1)
                                 ELSE CompSize]
        total == ChunkTableSize(usize) + SumTo(tsz, n)
    IN  [original_size |-> usize,
         size |-> total,
         tab |-> [k \in 1 .. n - 1 |-> SumTo(tsz, k)],
         tsz |-> tsz,
         integ |-> [j \in 1 .. n |-> "ok"],
         flen |-> total,
         lenient |-> FALSE,
         seek_fail |-> 0,
         ctype |-> ctype,
         hash |-> sha1_buffer(Orig(0, usize))]

\* An uncompressed resource: stored size = original size, no chunk table.
Uncompressed(usize) ==
    [original_size |-> usize, size |-> usize, tab |-> <<>>, tsz |-> <<usize>>,
     integ |-> <<"ok">>, flen |-> usize, lenient |-> FALSE, seek_fail |-> 0,
     ctype |-> "NONE",
     hash |-> sha1_buffer(Orig(0, usize))]

\* What can be wrong with the content of a stored resource.
Spoiled(r) ==
    LET n == Len(r.tsz)
    IN  {[r EXCEPT !.integ[j] = "garbled"] : j \in 1 .. n}
        \cup {[r EXCEPT !.integ[j] = "bad"] :
                 j \in {x \in 1 .. n : r.ctype # "NONE" /\ ~StoredRaw(r, x - 1)}}
        \cup {[r EXCEPT !.flen = @ - 10]}
        \cup {[r EXCEPT !.seek_fail = k] : k \in 1 .. MaxSeeks}

\* What can be wrong with the chunk table or the stored size of a resource,
\* with and without more of the archive following it.
Damaged(r) ==
    LET n == Len(r.tsz)
        bad == {[r EXCEPT !.tab[c[1]] = @ + c[2]] :
                   c \in {x \in (1 .. Len(r.tab)) \X {Skew, 0 - Skew} :
                             r.tab[x[1]] + x[2] >= 0}}
               \cup {[r EXCEPT !.size = @ + d] :
                        d \in {e \in {Skew, 0 - (r.tsz[n] + 50)} :
                                  r.ctype # "NONE" /\ r.size + e >= 0}}
    IN  bad \cup {[b EXCEPT !.flen = @ + Trailing] : b \in bad}
            \cup {[b EXCEPT !.flen = @ + Trailing, !.lenient = TRUE] : b \in bad}

Sizes ==
    {(n - 1) * WIM_CHUNK_SIZE + resid :
        n \in 1 .. MaxChunks, resid \in {1, Residue, WIM_CHUNK_SIZE}}

Sound ==
    {WellFormed(usize, kinds, ctype) :
        usize \in Sizes, ctype \in {"LZX", "XPRESS"},
        kinds \in [1 .. MaxChunks -> {"raw", "comp"}]}
    \cup {Uncompressed(usize) : usize \in Sizes}

\* A chunk is stored compressed only when that is shorter.
Plausible(r) ==
    \A j \in 1 .. Len(r.tsz) :
        r.tsz[j] <= ChunkUsize(r.original_size, j - 1)

\* The reader treats the two codecs alike but for the decompressor it calls:
\* damage to the table is put into the resources of one of them.
Resources ==
    LET sound == {r \in Sound : Plausible(r)}
    IN  sound \cup UNION {Spoiled(r) : r \in sound}
              \cup UNION {Damaged(r) : r \in {x \in sound : x.ctype = "LZX"}}

\* Offsets at and next to the chunk boundaries of a resource.
Points(usize) ==
    {p \in {k * WIM_CHUNK_SIZE + d : k \in 0 .. MaxChunks, d \in {0, 1}}
              \cup {usize} : p <= usize}

(***************************************************************************)
(* The NTFS-3g apply back-end (ntfs-3g_apply.c).                           *)
(*   job        the tree to extract: ndirs directories below the root, and *)
(*              links[n] extraction aliases of nondirectory inode n        *)
(*   ap         ntfs_3g_extract(): its position pc, the value it returns   *)
(*              and the steps it has taken, <<step, result>>               *)
(*   ctx        struct ntfs_3g_apply_ctx.  open_attrs holds, for each open *)
(*              attribute, the index of the target it was opened for;      *)
(*              open_inodes the inode numbers of the open inodes (or       *)
(*              NULL); reparse_inodes the pairs of ntfs_reparse_inodes[]   *)
(*              and wim_reparse_inodes[]; num_open_attrs, num_open_inodes  *)
(*              and num_reparse_inodes are the lengths.  reparse_ptr is    *)
(*              NULL or 1 + the number of bytes of rpbuf.rpdata filled (the *)
(*              buffer taken to lie at address 1), rpdata the chunks       *)
(*              copied there, <<chunk, size>>                              *)
(*   i_visited  the inodes whose i_visited is set                          *)
(*   ntfs       the volume as libntfs-3g holds it: dirs directories        *)
(*              created, files[n] links of inode n created, the attributes *)
(*              (live_attrs) and inodes (live_inodes) opened and not yet   *)
(*              closed, sink[i] the writes <<offset, size, chunk>> done to *)
(*              the stream of target i of the current blob, set_reparse    *)
(*              the calls of ntfs_set_ntfs_reparse_data() for it           *)
(*   drv        extract_blob_list(): the blob it is at, the chunks of it   *)
(*              consumed, the status it will end the blob with, what it    *)
(*              returns, and the last callback with its outcome            *)
(***************************************************************************)
\* The null pointer; inode numbers and addresses are above it.
NULL == 0

\* The trees extracted: the root alone, and a tree with MaxDirs directories
\* and MaxFiles nondirectory inodes, the first of which has two aliases.
Trees ==
    {[ndirs |-> 0, links |-> <<>>],
     [ndirs |-> MaxDirs, links |-> [n \in 1 .. MaxFiles |-> IF n = 1 THEN 2 ELSE 1]]}

TargetInodes == {1, 2}

StreamTypes == {"unnamed", "named", "reparse"}

\* The blobs extracted.  A blob is extracted to at most one unnamed data
\* stream and one reparse point of an inode; the inode of its first target
\* is called inode 1.
Blobs ==
    {b \in [size : {SmallBlob, (MaxBlobChunks - 1) * WIM_CHUNK_SIZE + Residue},
            targets : UNION {[1 .. n -> [inode : TargetInodes, stream : StreamTypes]] :
                                n \in {1, MaxTargets}}] :
        /\ b.targets[1].inode = 1
        /\ \A i, j \in DOMAIN b.targets :
              (i # j /\ b.targets[i] = b.targets[j]) => b.targets[i].stream = "named"}

CtxIdle ==
    [open_attrs |-> <<>>, open_inodes |-> <<>>, reparse_inodes |-> <<>>,
     reparse_ptr |-> NULL, rpdata |-> <<>>, offset |-> 0]

\* ntfs_3g_cleanup_blob_extract() that leaves the inodes open and listed.
ntfs_3g_cleanup_blob_extract_attrs_only(st, close_fails) ==
    [st EXCEPT !.ctx.open_attrs = <<>>,
               !.ctx.offset = 0,
               !.ctx.reparse_ptr = NULL,
               !.ctx.reparse_inodes = <<>>,
               !.ntfs.live_attrs =
                   @ \ {st.ctx.open_attrs[k] : k \in DOMAIN st.ctx.open_attrs},
               !.closed = IF close_fails /\ st.ctx.open_attrs # <<>>
                          THEN 0 - 1 ELSE 0]

\* ntfs_3g_cleanup_blob_extract() on the state st = [ctx, ntfs, ...]; a close
\* fails when close_fails says so and there is something to close.
ntfs_3g_cleanup_blob_extract(st, close_fails) ==
    [st EXCEPT !.ctx.open_attrs = <<>>,
               !.ctx.open_inodes = <<>>,
               !.ctx.offset = 0,
               !.ctx.reparse_ptr = NULL,
               !.ctx.reparse_inodes = <<>>,
               !.ntfs.live_attrs =
                   @ \ {st.ctx.open_attrs[k] : k \in DOMAIN st.ctx.open_attrs},
               !.ntfs.live_inodes =
                   SelectSeq(@, LAMBDA n :
                       \A k \in DOMAIN st.ctx.open_inodes : st.ctx.open_inodes[k] # n),
               !.closed = IF close_fails
                             /\ \/ st.ctx.open_attrs # <<>>
                                \/ \E k \in DOMAIN st.ctx.open_inodes :
                                      st.ctx.open_inodes[k] # NULL
                          THEN 0 - 1 ELSE 0]

\* ntfs_3g_open_inode() that opens the inode whether or not it is open.
ntfs_3g_open_inode_again(st, inode, open_fails) ==
    [st EXCEPT !.ni = IF open_fails THEN NULL ELSE inode,
               !.ctx.open_inodes = Append(@, IF open_fails THEN NULL ELSE inode),
               !.ntfs.live_inodes = IF open_fails THEN @ ELSE Append(@, inode),
               !.visited = @ \cup {inode}]

\* ntfs_3g_open_inode(): the handle is left in st.ni.
ntfs_3g_open_inode(st, inode, open_fails) ==
    IF inode \in st.visited
          /\ \E k \in DOMAIN st.ctx.open_inodes : st.ctx.open_inodes[k] = inode
    THEN [st EXCEPT !.ni = inode]
    ELSE [st EXCEPT !.ni = IF open_fails THEN NULL ELSE inode,
                    !.ctx.open_inodes = Append(@, IF open_fails THEN NULL ELSE inode),
                    !.ntfs.live_inodes = IF open_fails THEN @ ELSE Append(@, inode),
                    !.visited = @ \cup {inode}]

\* ntfs_3g_begin_extract_blob_instance() for target i of the blob; what names
\* the library call that fails in it, if any.
ntfs_3g_begin_extract_blob_instance(st, blob, i, what) ==
    IF blob.targets[i].stream = "reparse"
    THEN IF blob.size > REPARSE_DATA_MAX_SIZE
         THEN [st EXCEPT !.ret = WIMLIB_ERR_INVALID_REPARSE_DATA]
         ELSE [st EXCEPT !.ctx.reparse_ptr = 1,
                         !.ctx.rpdata = <<>>,
                         !.ctx.reparse_inodes =
                             Append(@, <<st.ni, blob.targets[i].inode>>),
                         !.ret = SUCCESS]
    ELSE IF blob.targets[i].stream = "named" /\ what = "ntfs_attr_add"
         THEN [st EXCEPT !.ret = WIMLIB_ERR_NTFS_3G]
         ELSE IF what = "ntfs_attr_open"
              THEN [st EXCEPT !.ret = WIMLIB_ERR_NTFS_3G]
              ELSE [st EXCEPT !.ctx.open_attrs = Append(@, i),
                              !.ntfs.live_attrs = @ \cup {i},
                              !.ret = SUCCESS]

\* The body of the loop of ntfs_3g_begin_extract_blob() for target i, after
\* ntfs_3g_open_inode() left opened.
BeginTarget(opened, blob, i, what) ==
    IF opened.ni = NULL THEN [opened EXCEPT !.ret = WIMLIB_ERR_NTFS_3G]
    ELSE ntfs_3g_begin_extract_blob_instance(opened, blob, i, what)

\* The loop of ntfs_3g_begin_extract_blob() from target i on; the library
\* call fail[2] fails for target fail[1].
RECURSIVE BeginTargets(_, _, _, _)
BeginTargets(st, blob, i, fail) ==
    IF i > Len(blob.targets) \/ st.ret # SUCCESS THEN st
    ELSE BeginTargets(
             BeginTarget(ntfs_3g_open_inode(st, blob.targets[i].inode,
                                            fail = <<i, "ntfs_inode_open">>),
                         blob, i, IF fail[1] = i THEN fail[2] ELSE "none"),
             blob, i + 1, fail)

\* The end of ntfs_3g_begin_extract_blob(): out_cleanup and out.
BeginEnd(looped, blob) ==
    [(IF looped.ret # SUCCESS THEN ntfs_3g_cleanup_blob_extract(looped, FALSE)
      ELSE looped)
     EXCEPT !.visited = @ \ {blob.targets[i].inode : i \in DOMAIN blob.targets}]

ntfs_3g_begin_extract_blob(st, blob, fail) ==
    BeginEnd(BeginTargets(st, blob, 1, fail), blob)

\* ntfs_3g_extract_chunk() that writes to the first open attribute only.
ntfs_3g_extract_chunk_first_only(st, chunk, size, fail_at) ==
    [st EXCEPT
        !.ntfs.sink =
            [i \in DOMAIN @ |->
                IF st.ctx.open_attrs # <<>> /\ st.ctx.open_attrs[1] = i
                      /\ fail_at # 1
                THEN Append(@[i], <<st.ctx.offset, size, chunk>>)
                ELSE @[i]],
        !.ctx.rpdata = IF fail_at = 0 /\ st.ctx.reparse_ptr # NULL
                       THEN Append(@, <<chunk, size>>) ELSE @,
        !.ctx.reparse_ptr = IF fail_at = 0 /\ @ # NULL THEN @ + size ELSE @,
        !.ctx.offset = IF fail_at = 0 THEN @ + size ELSE @,
        !.ret = IF fail_at = 0 THEN SUCCESS ELSE WIMLIB_ERR_NTFS_3G]

\* ntfs_3g_extract_chunk() for chunk number chunk of size bytes; the write to
\* the fail_at-th open attribute fails (none when 0).
ntfs_3g_extract_chunk(st, chunk, size, fail_at) ==
    [st EXCEPT
        !.ntfs.sink =
            [i \in DOMAIN @ |->
                IF \E a \in DOMAIN st.ctx.open_attrs :
                      /\ st.ctx.open_attrs[a] = i
                      /\ (fail_at = 0 \/ a < fail_at)
                THEN Append(@[i], <<st.ctx.offset, size, chunk>>)
                ELSE @[i]],
        !.ctx.rpdata = IF fail_at = 0 /\ st.ctx.reparse_ptr # NULL
                       THEN Append(@, <<chunk, size>>) ELSE @,
        !.ctx.reparse_ptr = IF fail_at = 0 /\ @ # NULL THEN @ + size ELSE @,
        !.ctx.offset = IF fail_at = 0 THEN @ + size ELSE @,
        !.ret = IF fail_at = 0 THEN SUCCESS ELSE WIMLIB_ERR_NTFS_3G]

\* inode->i_reparse_tag: each inode has a tag of its own.
i_reparse_tag(inode) == <<"tag", inode>>

\* SetReparseData() that leaves the tag of the first reparse inode in rpbuf
\* for all of them.
SetReparseData_first_tag(st, blob, set_fail_at) ==
    [st EXCEPT
        !.ntfs.set_reparse =
            [k \in 1 .. (IF set_fail_at = 0 THEN Len(st.ctx.reparse_inodes)
                         ELSE set_fail_at) |->
                <<st.ctx.reparse_inodes[k][1], st.ctx.reparse_inodes[k][2],
                  st.ctx.rpdata, blob.size,
                  i_reparse_tag(st.ctx.reparse_inodes[1][2])>>],
        !.ret = IF set_fail_at = 0 THEN SUCCESS ELSE WIMLIB_ERR_SET_REPARSE_DATA]

\* The loop of ntfs_3g_end_extract_blob() over the reparse inodes; the call
\* for the set_fail_at-th fails (none when 0).  A call is recorded with the
\* inode set, the WIM inode, the data and data length of rpbuf and its rptag.
SetReparseData(st, blob, set_fail_at) ==
    [st EXCEPT
        !.ntfs.set_reparse =
            [k \in 1 .. (IF set_fail_at = 0 THEN Len(st.ctx.reparse_inodes)
                         ELSE set_fail_at) |->
                <<st.ctx.reparse_inodes[k][1], st.ctx.reparse_inodes[k][2],
                  st.ctx.rpdata, blob.size,
                  i_reparse_tag(st.ctx.reparse_inodes[k][2])>>],
        !.ret = IF set_fail_at = 0 THEN SUCCESS ELSE WIMLIB_ERR_SET_REPARSE_DATA]

\* EndOut() that reports a failed close whatever the status was.
EndOut_close_first(cleaned) ==
    [cleaned EXCEPT !.ret = IF cleaned.closed # 0 THEN WIMLIB_ERR_NTFS_3G ELSE @]

\* The end of ntfs_3g_end_extract_blob(): out, after the cleanup.
EndOut(cleaned) ==
    [cleaned EXCEPT !.ret = IF cleaned.closed # 0 /\ @ = SUCCESS
                            THEN WIMLIB_ERR_NTFS_3G ELSE @]

EndCleanup(st, close_fails) ==
    EndOut(ntfs_3g_cleanup_blob_extract(st, close_fails))

ntfs_3g_end_extract_blob(st, blob, status, set_fail_at, close_fails) ==
    IF status # SUCCESS
    THEN EndCleanup([st EXCEPT !.ret = status], close_fails)
    ELSE EndCleanup(SetReparseData(st, blob, set_fail_at), close_fails)

\* ntfs_3g_create_directories(): the directories there are afterwards and the
\* value returned, when the creation of directory number d fails (d in
\* 1 .. ndirs), or a step outside the creations does (d = ndirs + 1), or none
\* (d = 0).
ntfs_3g_create_directories(ndirs, d) ==
    [dirs |-> IF d = 0 \/ d = ndirs + 1 THEN ndirs ELSE d - 1,
     ret |-> IF d = 0 THEN SUCCESS ELSE WIMLIB_ERR_NTFS_3G]

\* ntfs_3g_create_nondirectories(): the links of each inode there are
\* afterwards and the value returned, when the creation of inode f fails with
\* made of its links there (none fails when f = 0).
ntfs_3g_create_nondirectories(links, f, made) ==
    [files |-> [n \in DOMAIN links |->
                   IF f = 0 \/ n < f THEN links[n]
                   ELSE IF n = f THEN made ELSE 0],
     ret |-> IF f = 0 THEN SUCCESS ELSE WIMLIB_ERR_NTFS_3G]

ApIdle == [pc |-> "start", ret |-> SUCCESS, steps |-> <<>>]

NtfsEmpty ==
    [dirs |-> 0, files |-> <<>>, live_attrs |-> {}, live_inodes |-> <<>>,
     sink |-> <<>>, set_reparse |-> <<>>]

NoBlob == [size |-> 0, targets |-> <<>>]

DrvIdle ==
    [state |-> "idle", blob |-> NoBlob, next |-> 0, status |-> SUCCESS,
     ret |-> SUCCESS, nblobs |-> 0, ncalls |-> 0,
     last |-> [call |-> "none", status |-> SUCCESS, ret |-> SUCCESS,
               closed |-> 0, fault |-> 0]]

NoJob == [ndirs |-> 0, links |-> <<>>]

\* The state the callbacks work on.
CallbackState ==
    [ctx |-> ctx, ntfs |-> ntfs, visited |-> i_visited, ni |-> NULL,
     ret |-> SUCCESS, closed |-> 0]

ApplyUnused ==
    /\ job = NoJob
    /\ ap = ApIdle
    /\ ctx = CtxIdle
    /\ i_visited = {}
    /\ ntfs = NtfsEmpty
    /\ drv = DrvIdle

\* Step() that goes on whatever the step gave.
Step_goes_on(from, name, ret, to) ==
    /\ ap.pc = from
    /\ ap' = [ap EXCEPT !.pc = to,
                        !.ret = ret,
                        !.steps = Append(@, <<name, ret>>)]

\* One step of ntfs_3g_extract() before the blobs: from position from to
\* position to when it gives 0, else to out_unmount.
Step(from, name, ret, to) ==
    /\ ap.pc = from
    /\ ap' = [ap EXCEPT !.pc = IF ret = SUCCESS THEN to ELSE "out_unmount",
                        !.ret = ret,
                        !.steps = Append(@, <<name, ret>>)]

\* vol = ntfs_mount(...)
NtfsMount(ok) ==
    /\ ap.pc = "start"
    /\ ap' = [ap EXCEPT !.pc = IF ok THEN "mounted" ELSE "returned",
                        !.ret = IF ok THEN SUCCESS ELSE WIMLIB_ERR_NTFS_3G,
                        !.steps = Append(@, <<"ntfs_mount",
                                             IF ok THEN SUCCESS
                                             ELSE WIMLIB_ERR_NTFS_3G>>)]
    /\ UNCHANGED <<varsRes, varsWim, job, ctx, i_visited, ntfs, drv, varsPool,
                   varsCreate, varsSd, varsMore>>

StartFileStructurePhase(ret) ==
    /\ Step("mounted", "start_file_structure_phase", ret, "structure")
    /\ ntfs' = [ntfs EXCEPT !.files = [n \in DOMAIN job.links |-> 0]]
    /\ UNCHANGED <<varsRes, varsWim, job, ctx, i_visited, drv, varsPool, varsCreate,
                   varsSd, varsMore>>

CreateDirectories(d) ==
    /\ \E got \in {ntfs_3g_create_directories(job.ndirs, d)} :
          /\ Step("structure", "ntfs_3g_create_directories", got.ret, "dirs")
          /\ ntfs' = [ntfs EXCEPT !.dirs = got.dirs]
    /\ UNCHANGED <<varsRes, varsWim, job, ctx, i_visited, drv, varsPool, varsCreate,
                   varsSd, varsMore>>

CreateNondirectories(f, made) ==
    /\ \E got \in {ntfs_3g_create_nondirectories(job.links, f, made)} :
          /\ Step("dirs", "ntfs_3g_create_nondirectories", got.ret, "nondirs")
          /\ ntfs' = [ntfs EXCEPT !.files = got.files]
    /\ UNCHANGED <<varsRes, varsWim, job, ctx, i_visited, drv, varsPool, varsCreate,
                   varsSd, varsMore>>

EndFileStructurePhase(ret) ==
    /\ Step("nondirs", "end_file_structure_phase", ret, "blobs")
    /\ UNCHANGED <<varsRes, varsWim, job, ctx, i_visited, ntfs, drv, varsPool,
                   varsCreate, varsSd, varsMore>>

\* extract_blob_list() calls begin_blob for the next blob.
BeginBlob(blob, fail) ==
    /\ ap.pc = "blobs" /\ drv.state = "idle" /\ drv.nblobs < MaxBlobs
    /\ \E got \in {ntfs_3g_begin_extract_blob(
                      [CallbackState EXCEPT
                          !.ntfs.sink = [i \in DOMAIN blob.targets |-> <<>>],
                          !.ntfs.set_reparse = <<>>],
                      blob, fail)} :
          /\ ctx' = got.ctx
          /\ ntfs' = got.ntfs
          /\ i_visited' = got.visited
          /\ drv' = [drv EXCEPT
                        !.state = IF got.ret = SUCCESS THEN "begun" ELSE "over",
                        !.blob = blob, !.next = 0, !.status = SUCCESS,
                        !.ret = got.ret,
                        !.ncalls = @ + 1,
                        !.last = [call |-> "begin", status |-> SUCCESS,
                                  ret |-> got.ret, closed |-> 0,
                                  fault |-> fail[1]]]
    /\ UNCHANGED <<varsRes, varsWim, job, ap, varsPool, varsCreate, varsSd, varsMore>>

\* extract_blob_list() hands the next chunk of the blob to consume_chunk.
ExtractChunk(fail_at) ==
    /\ ap.pc = "blobs" /\ drv.state = "begun" /\ drv.status = SUCCESS
    /\ drv.next < NumChunks(drv.blob.size)
    /\ fail_at <= Len(ctx.open_attrs)
    /\ \E got \in {ntfs_3g_extract_chunk(CallbackState, drv.next + 1,
                                         ChunkUsize(drv.blob.size, drv.next),
                                         fail_at)} :
          /\ ctx' = got.ctx
          /\ ntfs' = got.ntfs
          /\ drv' = [drv EXCEPT
                        !.next = IF got.ret = SUCCESS THEN @ + 1 ELSE @,
                        !.status = got.ret,
                        !.ncalls = @ + 1,
                        !.last = [call |-> "chunk", status |-> SUCCESS,
                                  ret |-> got.ret, closed |-> 0,
                                  fault |-> fail_at]]
    /\ UNCHANGED <<varsRes, varsWim, job, ap, i_visited, varsPool, varsCreate, varsSd,
                 varsMore>>

\* The statuses extract_blob_list() may end the blob with: that of a failed
\* consume_chunk, that of a failed read, or the outcome of the verification
\* of the SHA-1 once all chunks are consumed.
EndStatuses ==
    IF drv.status # SUCCESS THEN {drv.status}
    ELSE {WIMLIB_ERR_READ, WIMLIB_ERR_DECOMPRESSION}
         \cup (IF drv.next = NumChunks(drv.blob.size)
               THEN {SUCCESS, WIMLIB_ERR_INVALID_RESOURCE_HASH} ELSE {})

\* extract_blob_list() calls end_blob.
EndBlob(status, set_fail_at, close_fails) ==
    /\ ap.pc = "blobs" /\ drv.state = "begun"
    /\ status \in EndStatuses
    /\ set_fail_at <= Len(ctx.reparse_inodes)
    /\ \E got \in {ntfs_3g_end_extract_blob(CallbackState, drv.blob, status,
                                            set_fail_at, close_fails)} :
          /\ ctx' = got.ctx
          /\ ntfs' = got.ntfs
          /\ drv' = [drv EXCEPT
                        !.state = IF got.ret = SUCCESS THEN "idle" ELSE "over",
                        !.ret = got.ret,
                        !.nblobs = @ + 1,
                        !.ncalls = @ + 1,
                        !.last = [call |-> "end", status |-> status,
                                  ret |-> got.ret, closed |-> got.closed,
                                  fault |-> set_fail_at]]
    /\ UNCHANGED <<varsRes, varsWim, job, ap, i_visited, varsPool, varsCreate, varsSd,
                 varsMore>>

\* ret = extract_blob_list(&ctx->common, &cbs)
ExtractBlobListReturns ==
    /\ ap.pc = "blobs" /\ drv.state \in {"idle", "over"}
    /\ ap' = [ap EXCEPT !.pc = "out_unmount", !.ret = drv.ret,
                        !.steps = Append(@, <<"extract_blob_list", drv.ret>>)]
    /\ UNCHANGED <<varsRes, varsWim, job, ctx, i_visited, ntfs, drv, varsPool,
                   varsCreate, varsSd, varsMore>>

\* out_unmount
NtfsUmount(fails) ==
    /\ ap.pc = "out_unmount"
    /\ ap' = [ap EXCEPT !.pc = "returned",
                        !.ret = IF fails /\ @ = SUCCESS THEN WIMLIB_ERR_NTFS_3G
                                ELSE @,
                        !.steps = Append(@, <<"ntfs_umount",
                                             IF fails THEN WIMLIB_ERR_NTFS_3G
                                             ELSE SUCCESS>>)]
    /\ UNCHANGED <<varsRes, varsWim, job, ctx, i_visited, ntfs, drv, varsPool,
                   varsCreate, varsSd, varsMore>>

BeginFailures ==
    {<<0, "none">>}
    \cup ((1 .. MaxTargets)
            \X {"ntfs_inode_open", "ntfs_attr_add", "ntfs_attr_open"})

NextApply ==
    \/ \E ok \in BOOLEAN : NtfsMount(ok)
    \/ \E ret \in {SUCCESS, WIMLIB_ERR_ABORTED_BY_PROGRESS} :
          StartFileStructurePhase(ret)
    \/ \E d \in 0 .. job.ndirs + 1 : CreateDirectories(d)
    \/ \E f \in 0 .. Len(job.links) :
          \E made \in 0 .. (IF f = 0 THEN 0 ELSE job.links[f]) :
             CreateNondirectories(f, made)
    \/ \E ret \in {SUCCESS, WIMLIB_ERR_ABORTED_BY_PROGRESS} :
          EndFileStructurePhase(ret)
    \/ \E blob \in Blobs, fail \in BeginFailures : BeginBlob(blob, fail)
    \/ \E fail_at \in 0 .. MaxTargets : ExtractChunk(fail_at)
    \/ \E status \in {SUCCESS, WIMLIB_ERR_READ, WIMLIB_ERR_DECOMPRESSION,
                      WIMLIB_ERR_INVALID_RESOURCE_HASH, WIMLIB_ERR_NTFS_3G},
          set_fail_at \in 0 .. MaxTargets, close_fails \in BOOLEAN :
          EndBlob(status, set_fail_at, close_fails)
    \/ ExtractBlobListReturns
    \/ \E fails \in BOOLEAN : NtfsUmount(fails)

(***************************************************************************)
(* The lookup table and the images of an archive (modify.c,                *)
(* ntfs-capture.c).                                                        *)
(*   wim   the WIMStruct.  heap[a] is the struct lookup_table_entry at     *)
(*         address a: its hash, refcnt, whether it is that of a metadata   *)
(*         resource, and mem, which is "unused", "live", or "freed" for    *)
(*         memory that was freed while the table still links it.  table is *)
(*         the lookup table: the addresses it links, in the order they     *)
(*         were inserted.  image_metadata[i] holds the hashes of the       *)
(*         nondirectory dentries of image i (refs), the address of the     *)
(*         entry of its metadata resource, and whether its dentry tree     *)
(*         was freed.  calls counts the calls made, faults those of them   *)
(*         in which a step was made to fail, clean says that each          *)
(*         of them was a wimlib_add_image or wimlib_delete_image that      *)
(*         returned 0, crashed that a call never returned.                 *)
(*   cap   the last capture: its kind, the value it returned, the hashes   *)
(*         of the contents it read, and the hashes the table held when it  *)
(*         began                                                           *)
(* A source tree is a sequence of items of the directory captured: a file  *)
(* of some content, or a directory of files.  Content 0 is the empty one.  *)
(***************************************************************************)
File(c) == [dir |-> FALSE, files |-> <<c>>]

Dir(cs) == [dir |-> TRUE, files |-> cs]

SourceTrees ==
    {<<>>, <<File(1), File(1)>>, <<File(2), Dir(<<1, 0>>)>>}

\* An NTFS volume is a sequence of files, each a sequence of data streams
\* <<named, content>>.
NtfsVolumes ==
    {<<<< <<FALSE, 1>>, <<TRUE, 1>>, <<TRUE, 2>> >>>>,
     <<<< <<FALSE, 0>>, <<FALSE, 2>> >>>>,
     <<<< <<FALSE, 1>>, <<FALSE, 2>> >>, << <<FALSE, 3>> >>>>}

\* sha1sum() / ntfs_attr_sha1sum() of a content.
sha1sum(c) == (c * 40503 + 12345) % 65521

\* randomize_byte_array() for the entry at address a: a value that no other
\* entry has.
randomize_byte_array(a) == 65521 + a

Addresses == 1 .. (2 * MaxImages + 5)

\* A struct resource_entry.
ResourceEntry(offset, size, original_size, flags) ==
    [offset |-> offset, size |-> size, original_size |-> original_size,
     flags |-> flags]

WIM_RESHDR_FLAG_METADATA == 2

\* st_size of a file of content c, or the data_size of such a stream.
StSize(c) == c * 100

\* The resource entry of a new entry that refers to a file on disk or to a
\* stream of an NTFS volume.
FileEntry(c) == ResourceEntry(0, StSize(c), StSize(c), 0)

UnusedEntry ==
    [hash |-> 0, refcnt |-> 0, metadata |-> FALSE, mem |-> "unused",
     resource_entry |-> ResourceEntry(0, 0, 0, 0)]

\* What undefined behaviour after a free of linked memory comes to: the memory
\* keeps what it held, or malloc() hands it out again, or the process dies
\* when the table is next searched.
Dangling == {"kept", "reused", "crash"}

\* lookup_resource(): the address of the first entry linked that has the
\* hash, or NULL.
lookup_resource(w, hash) ==
    IF \E k \in DOMAIN w.table : w.heap[w.table[k]].hash = hash
    THEN w.table[CHOOSE k \in DOMAIN w.table :
                    /\ w.heap[w.table[k]].hash = hash
                    /\ \A j \in 1 .. k - 1 : w.heap[w.table[j]].hash # hash]
    ELSE NULL

\* The table links freed memory.
LinksFreed(w) == \E k \in DOMAIN w.table : w.heap[w.table[k]].mem = "freed"

\* malloc() for a lookup table entry: an address, or NULL.
new_lookup_table_entry(w, ub) ==
    IF ub = "reused" /\ \E a \in Addresses : w.heap[a].mem = "freed"
    THEN CHOOSE a \in Addresses :
             /\ w.heap[a].mem = "freed"
             /\ \A b \in 1 .. a - 1 : w.heap[b].mem # "freed"
    ELSE IF \E a \in Addresses : w.heap[a].mem = "unused"
         THEN CHOOSE a \in Addresses :
                  /\ w.heap[a].mem = "unused"
                  /\ \A b \in 1 .. a - 1 : w.heap[b].mem # "unused"
         ELSE NULL

\* A new entry of the hash with refcnt 1, made at address a and inserted.
InsertNew(w, a, hash, metadata, resource_entry) ==
    [w EXCEPT !.heap[a] = [hash |-> hash, refcnt |-> 1, metadata |-> metadata,
                           mem |-> "live", resource_entry |-> resource_entry],
              !.table = Append(@, a)]

\* lookup_table_remove() and the release of the entry.
lookup_table_remove(w, a) ==
    [w EXCEPT !.table = SelectSeq(@, LAMBDA x : x # a),
              !.heap[a] = UnusedEntry]

\* One reference to the hash given up: the refcnt of its entry falls, and an
\* entry that reaches 0 leaves the table.
DecrementAt(w, a) ==
    IF a = NULL THEN w
    ELSE IF w.heap[a].refcnt = 1 THEN lookup_table_remove(w, a)
    ELSE [w EXCEPT !.heap[a].refcnt = @ - 1]

lookup_table_decrement_refcnt(w, hash) == DecrementAt(w, lookup_resource(w, hash))

\* free_dentry_tree(root, table, true) for a tree whose nondirectory dentries
\* have the hashes refs.
RECURSIVE free_dentry_tree(_, _)
free_dentry_tree(w, refs) ==
    IF refs = <<>> THEN w
    ELSE free_dentry_tree(lookup_table_decrement_refcnt(w, refs[1]), Tail(refs))

(***************************************************************************)
(* build_dentry_tree().  The state of the capture:                         *)
(*   w        the archive                                                  *)
(*   n        the files and directories of the source visited              *)
(*   refs     the hashes of the nondirectory dentries linked below root    *)
(*   pending  those linked below a subdirectory that is not linked yet     *)
(*   ret      SUCCESS while the capture runs, else the value returned      *)
(*   ub       what a use of freed memory comes to                          *)
(* The fail_at-th file or directory visited cannot be read.                *)
(***************************************************************************)
\* The nondirectory branch that inserts a new entry whether or not the table
\* has one of the hash.
BuildFile_always_new(bt, c, sub, fails, found, fresh) ==
    IF fails THEN [bt EXCEPT !.n = @ + 1, !.ret = WIMLIB_ERR_STAT]
    ELSE IF fresh = NULL
    THEN [bt EXCEPT !.n = @ + 1, !.ret = WIMLIB_ERR_NOMEM]
    ELSE [bt EXCEPT !.n = @ + 1,
                    !.w = InsertNew(@, fresh, sha1sum(c), FALSE, FileEntry(c)),
                    !.refs = IF sub THEN @ ELSE Append(@, sha1sum(c)),
                    !.pending = IF sub THEN Append(@, sha1sum(c)) ELSE @]

\* The nondirectory branch for a file of content c, in a subdirectory or
\* not: found is what lookup_resource() gave, fresh what
\* new_lookup_table_entry() would give.
BuildFile(bt, c, sub, fails, found, fresh) ==
    IF fails THEN [bt EXCEPT !.n = @ + 1, !.ret = WIMLIB_ERR_STAT]
    ELSE IF bt.ub = "crash" /\ LinksFreed(bt.w)
    THEN [bt EXCEPT !.n = @ + 1, !.ret = CRASH]
    ELSE IF found = NULL /\ fresh = NULL
    THEN [bt EXCEPT !.n = @ + 1, !.ret = WIMLIB_ERR_NOMEM]
    ELSE [bt EXCEPT !.n = @ + 1,
                    !.w = IF found # NULL
                          THEN [@ EXCEPT !.heap[found].refcnt = @ + 1]
                          ELSE InsertNew(@, fresh, sha1sum(c), FALSE, FileEntry(c)),
                    !.refs = IF sub THEN @ ELSE Append(@, sha1sum(c)),
                    !.pending = IF sub THEN Append(@, sha1sum(c)) ELSE @]

build_file(bt, c, sub, fail_at) ==
    BuildFile(bt, c, sub, bt.n + 1 = fail_at,
              lookup_resource(bt.w, sha1sum(c)),
              new_lookup_table_entry(bt.w, bt.ub))

\* The loop over the entries of a directory that holds files only.
RECURSIVE BuildFiles(_, _, _, _)
BuildFiles(bt, files, sub, fail_at) ==
    IF files = <<>> \/ bt.ret # SUCCESS THEN bt
    ELSE BuildFiles(build_file(bt, files[1], sub, fail_at), Tail(files), sub,
                    fail_at)

\* link_dentry(child, root) for a subdirectory, unless building it failed.
LinkDir(built) ==
    IF built.ret # SUCCESS THEN built
    ELSE [built EXCEPT !.refs = @ \o built.pending, !.pending = <<>>]

\* build_dentry_tree() for a subdirectory that holds the files.
BuildDir(bt, files, fail_at) ==
    IF bt.n + 1 = fail_at THEN [bt EXCEPT !.n = @ + 1, !.ret = WIMLIB_ERR_STAT]
    ELSE LinkDir(BuildFiles([bt EXCEPT !.n = @ + 1, !.pending = <<>>], files,
                            TRUE, fail_at))

\* The loop over the entries of the root directory.
RECURSIVE BuildItems(_, _, _)
BuildItems(bt, items, fail_at) ==
    IF items = <<>> \/ bt.ret # SUCCESS THEN bt
    ELSE BuildItems(IF items[1].dir THEN BuildDir(bt, items[1].files, fail_at)
                    ELSE build_file(bt, items[1].files[1], FALSE, fail_at),
                    Tail(items), fail_at)

build_dentry_tree(w, tree, fail_at, ub) ==
    BuildItems([w |-> w, n |-> 0, refs |-> <<>>, pending |-> <<>>,
                ret |-> SUCCESS, ub |-> ub], tree, fail_at)

\* The files and directories of a source tree.
RECURSIVE NumObjects(_)
NumObjects(tree) ==
    IF tree = <<>> THEN 0
    ELSE 1 + (IF tree[1].dir THEN Len(tree[1].files) ELSE 0) + NumObjects(Tail(tree))

\* add_new_dentry_tree() for a tree with the hashes refs, the metadata entry
\* made at address a.
add_new_dentry_tree(w, refs, a) ==
    [InsertNew(w, a, randomize_byte_array(a), TRUE,
               ResourceEntry(0, 0, 0, WIM_RESHDR_FLAG_METADATA))
     EXCEPT !.image_metadata =
                Append(@, [refs |-> refs, lookup_table_entry |-> a,
                           freed |-> FALSE])]

\* err1 of wimlib_add_image(): the tree is freed; the image, if it was added
\* already, stays.
AddImageFails(w, refs, added, ret) ==
    [w |-> [free_dentry_tree(w, refs)
            EXCEPT !.image_metadata =
                       IF added THEN [@ EXCEPT ![Len(@)].freed = TRUE] ELSE @],
     refs |-> refs, ret |-> ret]

\* wimlib_add_image() from build_dentry_tree() on: built is what that left,
\* late the step after it that fails, a the address of the metadata entry.
AddImageBuilt(built, boot, late, a) ==
    IF built.ret # SUCCESS
    THEN AddImageFails(built.w, built.refs, FALSE, built.ret)
    ELSE IF late = "calculate_dentry_full_path" \/ late = "add_new_dentry_tree"
            \/ a = NULL
    THEN AddImageFails(built.w, built.refs, FALSE, WIMLIB_ERR_NOMEM)
    ELSE IF late = "xml_add_image"
    THEN AddImageFails(
             [add_new_dentry_tree(built.w, built.refs, a)
              EXCEPT !.boot_idx = IF boot THEN Len(built.w.image_metadata) + 1
                                  ELSE @],
             built.refs, TRUE, WIMLIB_ERR_NOMEM)
    ELSE [w |-> [add_new_dentry_tree(built.w, built.refs, a)
                 EXCEPT !.boot_idx = IF boot THEN Len(built.w.image_metadata) + 1
                                     ELSE @],
          refs |-> built.refs, ret |-> SUCCESS]

AddImageAlloc(built, boot, late, ub) ==
    AddImageBuilt(built, boot, late, new_lookup_table_entry(built.w, ub))

wimlib_add_image(w, tree, boot, fail_at, late, ub) ==
    AddImageAlloc(build_dentry_tree(w, tree, fail_at, ub), boot, late, ub)

WIM_ALL_IMAGES == 0 - 1

\* The deletion of one image that leaves the boot index as it is.
DeleteOne_boot_kept(w, image) ==
    [lookup_table_remove(free_dentry_tree(w, w.image_metadata[image].refs),
                         w.image_metadata[image].lookup_table_entry)
     EXCEPT !.image_metadata =
                [i \in 1 .. Len(@) - 1 |-> IF i < image THEN @[i] ELSE @[i + 1]]]

\* wimlib_delete_image() of one image that is there.
DeleteOne(w, image) ==
    [lookup_table_remove(free_dentry_tree(w, w.image_metadata[image].refs),
                         w.image_metadata[image].lookup_table_entry)
     EXCEPT !.image_metadata =
                [i \in 1 .. Len(@) - 1 |-> IF i < image THEN @[i] ELSE @[i + 1]],
            !.boot_idx = IF @ = image THEN 0
                         ELSE IF @ > image THEN @ - 1 ELSE @]

\* The loop of wimlib_delete_image(w, WIM_ALL_IMAGES).
RECURSIVE DeleteAll(_)
DeleteAll(w) == IF w.image_metadata = <<>> THEN w ELSE DeleteAll(DeleteOne(w, 1))

\* The dentry trees a deletion walks that were freed before, or entries it
\* searches that were.
DeleteUsesFreed(w, image) ==
    \/ LinksFreed(w)
    \/ \E i \in DOMAIN w.image_metadata :
          (image = WIM_ALL_IMAGES \/ image = i) /\ w.image_metadata[i].freed

wimlib_delete_image(w, image, ub) ==
    IF image # WIM_ALL_IMAGES /\ image \notin DOMAIN w.image_metadata
    THEN [w |-> w, ret |-> WIMLIB_ERR_INVALID_IMAGE]
    ELSE IF ub = "crash" /\ DeleteUsesFreed(w, image)
    THEN [w |-> w, ret |-> CRASH]
    ELSE [w |-> IF image = WIM_ALL_IMAGES THEN DeleteAll(w) ELSE DeleteOne(w, image),
          ret |-> SUCCESS]

(***************************************************************************)
(* wimlib_export_image() from a source archive into the archive.  A source *)
(* archive has a lookup table, a sequence of entries of a hash and a       *)
(* resource entry, images, each the hashes of its nondirectory dentries,   *)
(* and a boot index.  fail = <<k, step>>: the allocation for the k-th      *)
(* dentry of an image fails, or the step named does.                       *)
(***************************************************************************)
SourceWims ==
    {[lookup_table |->
          <<[hash |-> sha1sum(1), resource_entry |-> ResourceEntry(208, 60, 100, 4)],
            [hash |-> sha1sum(3), resource_entry |-> ResourceEntry(268, 300, 300, 0)]>>,
      image_metadata |-> <<<<sha1sum(1), sha1sum(1), sha1sum(3)>>>>,
      boot_idx |-> 1],
     [lookup_table |->
          <<[hash |-> sha1sum(2), resource_entry |-> ResourceEntry(208, 200, 200, 0)],
            [hash |-> sha1sum(3), resource_entry |-> ResourceEntry(408, 120, 300, 4)]>>,
      image_metadata |-> <<<<sha1sum(2)>>, <<sha1sum(2), sha1sum(3)>>>>,
      boot_idx |-> 0]}

\* wim_lookup_resource(src_wim, dentry): the place of the entry in the table
\* of the source, or NULL.
wim_lookup_resource(src, hash) ==
    IF \E k \in DOMAIN src.lookup_table : src.lookup_table[k].hash = hash
    THEN CHOOSE k \in DOMAIN src.lookup_table : src.lookup_table[k].hash = hash
    ELSE NULL

\* add_lookup_table_entry_to_dest_wim() for a nondirectory dentry of the
\* hash: src_entry is what the source has for it, found what the
\* destination has, fresh what new_lookup_table_entry() would give.
AddToDest(et, src_entry, hash, fails, found, fresh) ==
    IF src_entry = NULL THEN [et EXCEPT !.n = @ + 1]
    ELSE IF et.ub = "crash" /\ LinksFreed(et.w)
    THEN [et EXCEPT !.n = @ + 1, !.ret = CRASH]
    ELSE IF found # NULL
    THEN [et EXCEPT !.n = @ + 1, !.w.heap[found].refcnt = @ + 1]
    ELSE IF fails \/ fresh = NULL
    THEN [et EXCEPT !.n = @ + 1, !.ret = WIMLIB_ERR_NOMEM]
    ELSE [et EXCEPT !.n = @ + 1,
                    !.w = InsertNew(@, fresh, hash, FALSE,
                                    et.src.lookup_table[src_entry].resource_entry)]

add_lookup_table_entry_to_dest_wim(et, src, hash, fail_at) ==
    AddToDest(et, wim_lookup_resource(src, hash), hash, et.n + 1 = fail_at,
              lookup_resource(et.w, hash), new_lookup_table_entry(et.w, et.ub))

\* for_dentry_in_tree(root, add_lookup_table_entry_to_dest_wim, &wims), which
\* stops at the first dentry for which the function returns nonzero.
RECURSIVE ExportDentries(_, _, _, _)
ExportDentries(et, src, refs, fail_at) ==
    IF refs = <<>> \/ et.ret # SUCCESS THEN et
    ELSE ExportDentries(add_lookup_table_entry_to_dest_wim(et, src, refs[1], fail_at),
                        src, Tail(refs), fail_at)

\* wimlib_export_image() from add_new_dentry_tree() on: what the walk
\* returned is not looked at.
ExportAdd(walked, refs, boot, late, a) ==
    IF walked.ret = CRASH THEN [w |-> walked.w, ret |-> CRASH]
    ELSE IF late = "add_new_dentry_tree" \/ a = NULL
    THEN [w |-> walked.w, ret |-> WIMLIB_ERR_NOMEM]
    ELSE [w |-> [add_new_dentry_tree(walked.w, refs, a)
                 EXCEPT !.boot_idx = IF boot THEN Len(walked.w.image_metadata) + 1
                                     ELSE @],
          ret |-> IF late = "xml_export_image" THEN WIMLIB_ERR_NOMEM ELSE SUCCESS]

\* wimlib_export_image() of one image of the source.
ExportOne(w, src, src_image, boot, fail, ub) ==
    IF src_image \notin DOMAIN src.image_metadata
    THEN [w |-> w, ret |-> WIMLIB_ERR_INVALID_IMAGE]
    ELSE IF fail[2] = "wimlib_image_name_in_use"
    THEN [w |-> w, ret |-> WIMLIB_ERR_IMAGE_NAME_COLLISION]
    ELSE LET walked == ExportDentries([w |-> w, n |-> 0, ret |-> SUCCESS, ub |-> ub,
                                       src |-> src],
                                      src, src.image_metadata[src_image], fail[1])
         IN  ExportAdd(walked, src.image_metadata[src_image], boot, fail[2],
                       new_lookup_table_entry(walked.w, ub))

\* The loop of the export of all the images of a source that has several.
RECURSIVE ExportAll(_, _, _, _, _, _)
ExportAll(got, src, i, boot_idx, fail, ub) ==
    IF i > Len(src.image_metadata) \/ got.ret # SUCCESS THEN got
    ELSE ExportAll(ExportOne(got.w, src, i, i = boot_idx, fail, ub), src, i + 1,
                   boot_idx, fail, ub)

wimlib_export_image(w, src, src_image, boot, fail, ub) ==
    IF src_image = WIM_ALL_IMAGES /\ Len(src.image_metadata) > 1
    THEN IF boot /\ src.boot_idx = 0
         THEN [w |-> w, ret |-> WIMLIB_ERR_INVALID_PARAM]
         ELSE ExportAll([w |-> w, ret |-> SUCCESS], src, 1,
                        IF boot THEN src.boot_idx ELSE 0, fail, ub)
    ELSE ExportOne(w, src, IF src_image = WIM_ALL_IMAGES THEN 1 ELSE src_image,
                   boot, fail, ub)

(***************************************************************************)
(* capture_ntfs_streams().  The state of the capture of a volume:          *)
(*   w       the archive                                                   *)
(*   k       the data streams read so far                                  *)
(*   i_lte   the entry the inode's unnamed stream refers to, or NULL       *)
(*   lte     the entry of the stream in hand, or NULL                      *)
(*   hashes  the hashes of the non-empty streams read                      *)
(*   done    the loop over the inode's streams was left                    *)
(*   ret     the value capture_ntfs_streams() returns                      *)
(*   ub      what a use of freed memory comes to                           *)
(* what is the step that fails for the stream in hand, or "none".          *)
(***************************************************************************)
\* free_lookup_table_entry(): the table is not told.
free_lookup_table_entry(w, a) ==
    IF a = NULL THEN w ELSE [w EXCEPT !.heap[a].mem = "freed"]

\* The first half of the loop body, for a stream of content c: found is what
\* __lookup_resource() gave, fresh what new_lookup_table_entry() would give.
StreamEntry(st, c, what, found, fresh) ==
    IF c = 0 THEN [st EXCEPT !.k = @ + 1, !.lte = NULL]
    ELSE IF what = "ntfs_attr_sha1sum"
    THEN [st EXCEPT !.k = @ + 1, !.ret = WIMLIB_ERR_NTFS_3G, !.done = TRUE]
    ELSE IF st.ub = "crash" /\ LinksFreed(st.w)
    THEN [st EXCEPT !.k = @ + 1, !.ret = CRASH, !.done = TRUE]
    ELSE IF found # NULL
    THEN [st EXCEPT !.k = @ + 1, !.lte = found,
                    !.hashes = Append(@, sha1sum(c)),
                    !.w.heap[found].refcnt = @ + 1]
    ELSE IF what = "new_lookup_table_entry" \/ fresh = NULL
    THEN [st EXCEPT !.k = @ + 1, !.ret = WIMLIB_ERR_NOMEM, !.done = TRUE,
                    !.hashes = Append(@, sha1sum(c))]
    ELSE [st EXCEPT !.k = @ + 1, !.lte = fresh,
                    !.hashes = Append(@, sha1sum(c)),
                    !.w = InsertNew(@, fresh, sha1sum(c), FALSE, FileEntry(c))]

\* The second half: the reference to the entry goes to the inode or to a new
\* alternate data stream entry.
StreamAttach(st, named, what) ==
    IF st.done THEN st
    ELSE IF ~named
    THEN IF st.i_lte # NULL
         THEN [st EXCEPT !.w = free_lookup_table_entry(@, st.lte)]
         ELSE [st EXCEPT !.i_lte = st.lte]
    ELSE IF what = "utf16_to_utf8"
    THEN [st EXCEPT !.w = free_lookup_table_entry(@, st.lte),
                    !.ret = WIMLIB_ERR_NOMEM, !.done = TRUE]
    ELSE IF what = "inode_add_ads"
    THEN [st EXCEPT !.w = free_lookup_table_entry(@, st.lte),
                    !.ret = SUCCESS, !.done = TRUE]
    ELSE st

capture_stream(st, stream, what) ==
    StreamAttach(StreamEntry(st, stream[2], what,
                             lookup_resource(st.w, sha1sum(stream[2])),
                             new_lookup_table_entry(st.w, st.ub)),
                 stream[1], what)

RECURSIVE CaptureStreams(_, _, _, _)
CaptureStreams(st, streams, fail_at, what) ==
    IF streams = <<>> \/ st.done THEN st
    ELSE CaptureStreams(
             capture_stream(st, streams[1],
                            IF st.k + 1 = fail_at THEN what ELSE "none"),
             Tail(streams), fail_at, what)

capture_ntfs_streams(st, streams, fail_at, what) ==
    CaptureStreams([st EXCEPT !.i_lte = NULL, !.lte = NULL, !.done = FALSE,
                              !.ret = SUCCESS],
                   streams, fail_at, what)

\* build_dentry_tree_ntfs_recursive() over the files of the root directory.
RECURSIVE CaptureFiles(_, _, _, _)
CaptureFiles(st, files, fail_at, what) ==
    IF files = <<>> \/ st.ret # SUCCESS THEN st
    ELSE CaptureFiles(capture_ntfs_streams(st, files[1], fail_at, what),
                      Tail(files), fail_at, what)

build_dentry_tree_ntfs(w, volume, fail_at, what, ub) ==
    CaptureFiles([w |-> w, k |-> 0, i_lte |-> NULL, lte |-> NULL,
                  hashes |-> <<>>, done |-> FALSE, ret |-> SUCCESS, ub |-> ub],
                 volume, fail_at, what)

RECURSIVE NumStreams(_)
NumStreams(volume) ==
    IF volume = <<>> THEN 0 ELSE Len(volume[1]) + NumStreams(Tail(volume))

\* What is kept of the last call when it was an export or a deletion: for an
\* export the source, the image asked for, the flag, the value returned
\* and the archive as it was; for a deletion the image, the value returned
\* and the archive as it was.
NoCall == [op |-> "none"]

WimEmpty ==
    [heap |-> [a \in Addresses |-> UnusedEntry], table |-> <<>>,
     image_metadata |-> <<>>, boot_idx |-> 0, calls |-> 0, faults |-> 0,
     clean |-> TRUE,
     crashed |-> FALSE, last |-> NoCall]

NoCapture == [kind |-> "none", ret |-> SUCCESS, hashes |-> <<>>, before |-> {}]

\* The archive, where no call is made on it.
WimUnused == wim = WimEmpty /\ cap = NoCapture

(***************************************************************************)
(* The file-structure phase of the NTFS-3g back-end on an image, call by   *)
(* call of libntfs-3g, and the creation of the named data streams in the   *)
(* blob phase.                                                             *)
(*                                                                         *)
(*   img   the image extracted.  dentries is the tree in preorder, the     *)
(*         root first: the dentry's parent (NULL for the root), its inode, *)
(*         whether it is a directory, whether it has a short name and      *)
(*         whether it will be extracted; the dentry list is the dentries   *)
(*         that will be.  inodes[n] has the inode's streams (whether the   *)
(*         stream is named, and its blob or NULL) and whether it has a     *)
(*         security descriptor.                                            *)
(*   vol   the extraction: where ntfs_3g_extract() is (pc), the value      *)
(*         returned by the last step (ret), the calls of the library made  *)
(*         and not failed (log), i_mft_no of each inode (mft, NULL when    *)
(*         not set), the inodes ntfs_create() made (made), the fallible    *)
(*         calls made in the step (calls) and the blobs begun (begun).     *)
(***************************************************************************)
\* The inode number of the root directory of a volume; ntfs_create() gives
\* the inodes it makes the numbers after it.
FILE_root == 5

WIMLIB_ERR_SET_ATTRIBUTES == "WIMLIB_ERR_SET_ATTRIBUTES"
WIMLIB_ERR_SET_SECURITY == "WIMLIB_ERR_SET_SECURITY"
WIMLIB_ERR_SET_TIMESTAMPS == "WIMLIB_ERR_SET_TIMESTAMPS"
WIMLIB_ERR_SET_SHORT_NAME == "WIMLIB_ERR_SET_SHORT_NAME"

Dentry(parent, inode, dir, short, extract) ==
    [parent |-> parent, inode |-> inode, dir |-> dir, short |-> short,
     extract |-> extract]

Stream(named, blob) == [named |-> named, blob |-> blob]

Inode(streams, sec) == [streams |-> streams, sec |-> sec]

\* The images extracted: a root with an empty named data stream and a file;
\* a tree of nested directories with a file of two names, streams with and
\* without blobs and short names; a tree with a directory that is not
\* extracted; a tree of two directories side by side, one with a
\* subdirectory.
Images ==
    {[dentries |-> <<Dentry(NULL, 1, TRUE, FALSE, TRUE),
                     Dentry(1, 2, FALSE, FALSE, TRUE)>>,
      inodes |-> <<Inode(<<Stream(TRUE, NULL)>>, TRUE),
                   Inode(<<Stream(FALSE, 1)>>, FALSE)>>],
     [dentries |-> <<Dentry(NULL, 1, TRUE, FALSE, TRUE),
                     Dentry(1, 2, TRUE, TRUE, TRUE),
                     Dentry(2, 3, TRUE, FALSE, TRUE),
                     Dentry(3, 4, FALSE, FALSE, TRUE),
                     Dentry(2, 5, FALSE, TRUE, TRUE),
                     Dentry(1, 4, FALSE, FALSE, TRUE)>>,
      inodes |-> <<Inode(<<>>, TRUE),
                   Inode(<<Stream(TRUE, NULL), Stream(TRUE, 1)>>, TRUE),
                   Inode(<<>>, FALSE),
                   Inode(<<Stream(FALSE, 1), Stream(TRUE, NULL)>>, TRUE),
                   Inode(<<Stream(FALSE, NULL), Stream(TRUE, 2)>>, FALSE)>>],
     [dentries |-> <<Dentry(NULL, 1, TRUE, FALSE, TRUE),
                     Dentry(1, 2, TRUE, FALSE, FALSE),
                     Dentry(1, 3, TRUE, FALSE, TRUE),
                     Dentry(3, 4, FALSE, TRUE, TRUE),
                     Dentry(3, 4, FALSE, FALSE, TRUE)>>,
      inodes |-> <<Inode(<<>>, FALSE),
                   Inode(<<Stream(TRUE, NULL)>>, FALSE),
                   Inode(<<Stream(TRUE, 1)>>, TRUE),
                   Inode(<<Stream(FALSE, 1), Stream(TRUE, 1)>>, TRUE)>>],
     [dentries |-> <<Dentry(NULL, 1, TRUE, FALSE, TRUE),
                     Dentry(1, 2, TRUE, FALSE, TRUE),
                     Dentry(2, 3, TRUE, FALSE, TRUE),
                     Dentry(1, 4, TRUE, FALSE, TRUE),
                     Dentry(4, 5, FALSE, FALSE, TRUE)>>,
      inodes |-> <<Inode(<<>>, TRUE),
                   Inode(<<>>, TRUE),
                   Inode(<<Stream(TRUE, NULL)>>, FALSE),
                   Inode(<<>>, TRUE),
                   Inode(<<Stream(FALSE, NULL)>>, TRUE)>>],
     [dentries |-> <<Dentry(NULL, 1, TRUE, FALSE, TRUE),
                     Dentry(1, 2, FALSE, FALSE, TRUE),
                     Dentry(1, 2, FALSE, TRUE, TRUE),
                     Dentry(1, 2, FALSE, TRUE, TRUE)>>,
      inodes |-> <<Inode(<<>>, FALSE),
                   Inode(<<Stream(FALSE, 1)>>, FALSE)>>]}

NoImage == [dentries |-> <<>>, inodes |-> <<>>]

VolIdle ==
    [pc |-> "structure", ret |-> SUCCESS, log |-> <<>>, mft |-> <<>>,
     made |-> 0, calls |-> 0, begun |-> 0]

CreateUnused == img = NoImage /\ vol = VolIdle

\* A call of the library that may fail: the step goes on with it only while
\* nothing has failed; the call is the fail_at-th of the step, it fails with
\* err, else the call is logged.
Fallible(st, ev, err, fail_at) ==
    IF st.ret # SUCCESS THEN st
    ELSE IF st.calls + 1 = fail_at
    THEN [st EXCEPT !.calls = @ + 1, !.ret = err]
    ELSE [st EXCEPT !.calls = @ + 1, !.log = Append(@, ev)]

\* A close, made whatever ret is; its failure counts only when nothing has
\* failed before.
Close(st, ev, fail_at) ==
    [st EXCEPT !.calls = @ + 1,
               !.log = Append(@, ev),
               !.ret = IF @ = SUCCESS /\ st.calls + 1 = fail_at
                       THEN WIMLIB_ERR_NTFS_3G ELSE @]

\* The dentries of the tree whose parent is dir, in order.
Children(im, dir) ==
    SelectSeq([k \in DOMAIN im.dentries |-> k],
              LAMBDA k : im.dentries[k].parent = dir)

\* The dentry list: the dentries that will be extracted.
DentryList(im) ==
    SelectSeq([k \in DOMAIN im.dentries |-> k],
              LAMBDA k : im.dentries[k].extract)

\* inode->i_extraction_aliases
Aliases(im, inode) ==
    SelectSeq(DentryList(im), LAMBDA k : im.dentries[k].inode = inode)

\* ntfs_3g_set_timestamps()
set_timestamps(st, mft_no, fail_at) ==
    Fallible(st, <<"ntfs_inode_set_times", mft_no>>, WIMLIB_ERR_SET_TIMESTAMPS,
             fail_at)

\* ntfs_3g_set_metadata() that leaves the timestamps as they are.
set_metadata_no_times(st, im, mft_no, inode, fail_at) ==
    LET attrib == Fallible(st, <<"ntfs_set_ntfs_attrib", mft_no>>,
                           WIMLIB_ERR_SET_ATTRIBUTES, fail_at)
    IN  IF im.inodes[inode].sec
        THEN Fallible(attrib, <<"ntfs_set_ntfs_acl", mft_no>>,
                      WIMLIB_ERR_SET_SECURITY, fail_at)
        ELSE attrib

\* ntfs_3g_set_metadata(ni, inode, ctx) with none of the NO_ATTRIBUTES and
\* NO_ACLS extraction flags.
set_metadata(st, im, mft_no, inode, fail_at) ==
    LET attrib == Fallible(st, <<"ntfs_set_ntfs_attrib", mft_no>>,
                           WIMLIB_ERR_SET_ATTRIBUTES, fail_at)
        acl == IF im.inodes[inode].sec
               THEN Fallible(attrib, <<"ntfs_set_ntfs_acl", mft_no>>,
                             WIMLIB_ERR_SET_SECURITY, fail_at)
               ELSE attrib
    IN  set_timestamps(acl, mft_no, fail_at)

\* ntfs_3g_create_empty_named_data_streams(ni, inode, ctx) from stream i on.
RECURSIVE create_empty_named_data_streams(_, _, _, _, _)
create_empty_named_data_streams(st, im, inode, i, fail_at) ==
    IF i > Len(im.inodes[inode].streams) \/ st.ret # SUCCESS THEN st
    ELSE IF ~im.inodes[inode].streams[i].named
            \/ im.inodes[inode].streams[i].blob # NULL
    THEN create_empty_named_data_streams(st, im, inode, i + 1, fail_at)
    ELSE create_empty_named_data_streams(
             Fallible(st, <<"ntfs_attr_add", inode, i, "structure">>,
                      WIMLIB_ERR_NTFS_3G, fail_at),
             im, inode, i + 1, fail_at)

\* What follows ntfs_create() in the loop of ntfs_3g_create_dirs_recursive():
\* i_mft_no is set, then the progress is reported.
DirCreated(st, im, child) ==
    [st EXCEPT !.mft[im.dentries[child].inode] = FILE_root + st.made]

\* ntfs_3g_create_dirs_recursive(dir_ni, dir, ctx) over the children kids of
\* dir that are left, dir_ni being the inode dir_mft.
RECURSIVE create_dirs_recursive(_, _, _, _, _)
create_dirs_recursive(st, im, dir_mft, kids, fail_at) ==
    IF kids = <<>> \/ st.ret # SUCCESS THEN st
    ELSE IF ~im.dentries[Head(kids)].dir \/ ~im.dentries[Head(kids)].extract
    THEN create_dirs_recursive(st, im, dir_mft, Tail(kids), fail_at)
    ELSE LET child == Head(kids)
             inode == im.dentries[child].inode
             ni == FILE_root + st.made + 1
             created == Fallible([st EXCEPT !.made = @ + 1],
                                 <<"ntfs_create", ni, dir_mft, child, "S_IFDIR",
                                   st.mft[im.dentries[im.dentries[child].parent].inode]>>,
                                 WIMLIB_ERR_NTFS_3G, fail_at)
         IN  IF created.ret # SUCCESS THEN [created EXCEPT !.made = st.made]
             ELSE create_dirs_recursive(
                      Close(create_dirs_recursive(
                                create_empty_named_data_streams(
                                    set_metadata(
                                        Fallible(DirCreated(created, im, child),
                                                 <<"report_file_created">>,
                                                 WIMLIB_ERR_ABORTED_BY_PROGRESS,
                                                 fail_at),
                                        im, ni, inode, fail_at),
                                    im, inode, 1, fail_at),
                                im, ni, Children(im, child), fail_at),
                            <<"ntfs_inode_close_in_dir", ni, dir_mft>>, fail_at),
                      im, dir_mft, Tail(kids), fail_at)

\* ntfs_3g_restore_timestamps(vol, inode)
restore_timestamps(st, mft_no, fail_at) ==
    IF st.ret # SUCCESS THEN st
    ELSE LET opened == Fallible(st, <<"ntfs_inode_open", mft_no>>,
                                WIMLIB_ERR_SET_TIMESTAMPS, fail_at)
             set == Fallible(opened, <<"ntfs_inode_set_times", mft_no>>,
                             WIMLIB_ERR_SET_TIMESTAMPS, fail_at)
         IN  IF opened.ret # SUCCESS THEN opened
             ELSE [Close([set EXCEPT !.ret = SUCCESS],
                         <<"ntfs_inode_close", mft_no>>, fail_at)
                   EXCEPT !.ret = IF @ # SUCCESS \/ set.ret # SUCCESS
                                  THEN WIMLIB_ERR_SET_TIMESTAMPS ELSE SUCCESS]

\* ntfs_3g_restore_dos_name(ni, dir_ni, dentry, vol): the conversion of the
\* name, the opening of the inodes not given, ntfs_set_ntfs_dos_name(), which
\* closes both, and the restoring of the directory's timestamps.
restore_dos_name(st, im, dentry, given, fail_at) ==
    IF st.ret # SUCCESS THEN st
    ELSE LET dir_mft == st.mft[im.dentries[im.dentries[dentry].parent].inode]
             mft_no == st.mft[im.dentries[dentry].inode]
             name == Fallible(st, <<"utf16le_get_tstr", dentry>>,
                              WIMLIB_ERR_NOMEM, fail_at)
             dir_ni == IF given THEN name
                       ELSE Fallible(name, <<"ntfs_inode_open", dir_mft>>,
                                     WIMLIB_ERR_SET_SHORT_NAME, fail_at)
             ni == IF given THEN dir_ni
                   ELSE Fallible(dir_ni, <<"ntfs_inode_open", mft_no>>,
                                 WIMLIB_ERR_SET_SHORT_NAME, fail_at)
             set == Fallible(ni, <<"ntfs_set_ntfs_dos_name", mft_no, dir_mft,
                                   dentry>>,
                             WIMLIB_ERR_SET_SHORT_NAME, fail_at)
         IN  restore_timestamps(set, dir_mft, fail_at)

\* The loop of ntfs_3g_create_directories() that sets the DOS names, over the
\* dentries list of the dentry list that are left.
RECURSIVE SetDirDosNames(_, _, _, _)
SetDirDosNames(st, im, list, fail_at) ==
    IF list = <<>> \/ st.ret # SUCCESS THEN st
    ELSE IF ~im.dentries[Head(list)].dir \/ ~im.dentries[Head(list)].short
    THEN SetDirDosNames(st, im, Tail(list), fail_at)
    ELSE SetDirDosNames(
             Fallible(restore_dos_name(st, im, Head(list), FALSE, fail_at),
                      <<"report_file_created">>, WIMLIB_ERR_ABORTED_BY_PROGRESS,
                      fail_at),
             im, Tail(list), fail_at)

\* ntfs_3g_create_directories(root, dentry_list, ctx); the root is dentry 1.
create_directories(st, im, fail_at) ==
    LET root_ni == Fallible(st, <<"ntfs_inode_open", FILE_root>>,
                            WIMLIB_ERR_NTFS_3G, fail_at)
    IN  IF root_ni.ret # SUCCESS THEN root_ni
        ELSE SetDirDosNames(
                 Close(create_dirs_recursive(
                           [root_ni EXCEPT !.mft[im.dentries[1].inode] = FILE_root],
                           im, FILE_root, Children(im, 1), fail_at),
                       <<"ntfs_inode_close", FILE_root>>, fail_at),
                 im, DentryList(im), fail_at)

\* ntfs_3g_first_extraction_alias(inode): the first alias with a short name,
\* or the last alias when none has one.
first_extraction_alias(im, inode) ==
    LET aliases == Aliases(im, inode)
    IN  IF \E a \in DOMAIN aliases : im.dentries[aliases[a]].short
        THEN aliases[CHOOSE a \in DOMAIN aliases :
                        /\ im.dentries[aliases[a]].short
                        /\ \A b \in 1 .. a - 1 : ~im.dentries[aliases[b]].short]
        ELSE aliases[Len(aliases)]

\* ntfs_3g_add_link(ni, dentry)
add_link(st, im, mft_no, dentry, fail_at) ==
    IF st.ret # SUCCESS THEN st
    ELSE LET dir_mft == st.mft[im.dentries[im.dentries[dentry].parent].inode]
             dir_ni == Fallible(st, <<"ntfs_inode_open", dir_mft>>,
                                WIMLIB_ERR_NTFS_3G, fail_at)
             link == Fallible(dir_ni, <<"ntfs_link", mft_no, dir_mft, dentry>>,
                              WIMLIB_ERR_NTFS_3G, fail_at)
         IN  IF dir_ni.ret # SUCCESS THEN dir_ni
             ELSE [Close([link EXCEPT !.ret = SUCCESS],
                         <<"ntfs_inode_close", dir_mft>>, fail_at)
                   EXCEPT !.ret = IF @ # SUCCESS \/ link.ret # SUCCESS
                                  THEN WIMLIB_ERR_NTFS_3G ELSE SUCCESS]

\* The loop of ntfs_3g_create_nondirectory() that creates the additional
\* links, over the aliases that are left.
RECURSIVE AddLinks(_, _, _, _, _, _)
\* AddLinks() that links every alias, the first one too.
AddLinks_every_alias(st, im, mft_no, first_dentry, aliases, fail_at) ==
    IF aliases = <<>> \/ st.ret # SUCCESS THEN st
    ELSE AddLinks(add_link(st, im, mft_no, Head(aliases), fail_at),
                  im, mft_no, first_dentry, Tail(aliases), fail_at)

AddLinks(st, im, mft_no, first_dentry, aliases, fail_at) ==
    IF aliases = <<>> \/ st.ret # SUCCESS THEN st
    ELSE IF Head(aliases) = first_dentry
    THEN AddLinks(st, im, mft_no, first_dentry, Tail(aliases), fail_at)
    ELSE AddLinks(add_link(st, im, mft_no, Head(aliases), fail_at),
                  im, mft_no, first_dentry, Tail(aliases), fail_at)

\* ntfs_3g_create_nondirectory() from the additional links on, with
\* out_close_ni.
LinksAndMetadata(st, im, inode, first_dentry, fail_at) ==
    Close(create_empty_named_data_streams(
              set_metadata(AddLinks(st, im, st.mft[inode], first_dentry,
                                    Aliases(im, inode), fail_at),
                           im, st.mft[inode], inode, fail_at),
              im, inode, 1, fail_at),
          <<"ntfs_inode_close", st.mft[inode]>>, fail_at)

\* ntfs_3g_create_nondirectory(inode, ctx)
create_nondirectory(st, im, inode, fail_at) ==
    LET first_dentry == first_extraction_alias(im, inode)
        dir_mft == st.mft[im.dentries[im.dentries[first_dentry].parent].inode]
        dir_ni == Fallible(st, <<"ntfs_inode_open", dir_mft>>,
                           WIMLIB_ERR_NTFS_3G, fail_at)
        ni == FILE_root + st.made + 1
        created == Fallible([dir_ni EXCEPT !.made = @ + 1],
                            <<"ntfs_create", ni, dir_mft, first_dentry, "S_IFREG",
                              dir_mft>>,
                            WIMLIB_ERR_NTFS_3G, fail_at)
        numbered == [created EXCEPT !.mft[inode] = ni]
    IN  IF dir_ni.ret # SUCCESS THEN dir_ni
        ELSE IF created.ret # SUCCESS
        THEN [created EXCEPT !.made = st.made,
                             !.log = Append(@, <<"ntfs_inode_close", dir_mft>>)]
        ELSE IF im.dentries[first_dentry].short
        THEN LET named == restore_dos_name(numbered, im, first_dentry, TRUE,
                                           fail_at)
                 reopened == Fallible(named, <<"ntfs_inode_open", ni>>,
                                      WIMLIB_ERR_NTFS_3G, fail_at)
             IN  IF reopened.ret # SUCCESS THEN reopened
                 ELSE LinksAndMetadata(reopened, im, inode, first_dentry, fail_at)
        ELSE LET closed == Close(numbered, <<"ntfs_inode_close", dir_mft>>,
                                 fail_at)
             IN  IF closed.ret # SUCCESS
                 THEN [closed EXCEPT !.log = Append(@, <<"ntfs_inode_close", ni>>)]
                 ELSE LinksAndMetadata(closed, im, inode, first_dentry, fail_at)

\* ntfs_3g_create_nondirectories(dentry_list, ctx) over the dentries list of
\* the dentry list that are left.
RECURSIVE create_nondirectories(_, _, _, _)
create_nondirectories(st, im, list, fail_at) ==
    IF list = <<>> \/ st.ret # SUCCESS THEN st
    ELSE IF im.dentries[Head(list)].dir
    THEN create_nondirectories(st, im, Tail(list), fail_at)
    ELSE create_nondirectories(
             Fallible(IF Head(list) = Aliases(im, im.dentries[Head(list)].inode)[1]
                      THEN create_nondirectory(st, im, im.dentries[Head(list)].inode,
                                               fail_at)
                      ELSE st,
                      <<"report_file_created">>, WIMLIB_ERR_ABORTED_BY_PROGRESS,
                      fail_at),
             im, Tail(list), fail_at)

\* The blobs of the streams of the inodes that are extracted.
BlobsOf(im) ==
    {im.inodes[n].streams[s].blob :
        <<n, s>> \in {p \in (DOMAIN im.inodes) \X (1 .. MaxStreams) :
                        /\ p[2] \in DOMAIN im.inodes[p[1]].streams
                        /\ Aliases(im, p[1]) # <<>>
                        /\ im.inodes[p[1]].streams[p[2]].blob # NULL}}

\* The targets of a blob: the streams <<inode, stream>> it is extracted to,
\* in the order of the inodes and of their streams.
BlobTargets(im, blob) ==
    SelectSeq([k \in 1 .. MaxStreams * Len(im.inodes) |->
                  <<((k - 1) \div MaxStreams) + 1, ((k - 1) % MaxStreams) + 1>>],
              LAMBDA p : /\ p[2] \in DOMAIN im.inodes[p[1]].streams
                         /\ Aliases(im, p[1]) # <<>>
                         /\ im.inodes[p[1]].streams[p[2]].blob = blob)

\* ntfs_3g_begin_extract_blob_instance() for a data stream: a named stream
\* is created, then the stream is opened.
begin_data_stream(st, im, inode, stream, fail_at) ==
    LET opened == Fallible(st, <<"ntfs_inode_open", st.mft[inode]>>,
                           WIMLIB_ERR_NTFS_3G, fail_at)
        added == IF im.inodes[inode].streams[stream].named
                 THEN Fallible(opened, <<"ntfs_attr_add", inode, stream, "blobs">>,
                               WIMLIB_ERR_NTFS_3G, fail_at)
                 ELSE opened
    IN  Fallible(added, <<"ntfs_attr_open", inode, stream>>,
                 WIMLIB_ERR_NTFS_3G, fail_at)

\* The loop of ntfs_3g_begin_extract_blob() over the targets that are left.
RECURSIVE begin_data_streams(_, _, _, _)
begin_data_streams(st, im, targets, fail_at) ==
    IF targets = <<>> \/ st.ret # SUCCESS THEN st
    ELSE begin_data_streams(
             begin_data_stream(st, im, Head(targets)[1], Head(targets)[2], fail_at),
             im, Tail(targets), fail_at)

(***************************************************************************)
(* sd_fixup(): the work-around for the security descriptors that old       *)
(* versions of libntfs-3g reject.  A descriptor is the sequence of its     *)
(* bytes; the byte at offset o of the buffer is element o + 1.             *)
(*                                                                         *)
(*   sd   the descriptor given (desc), whether the library is one without  *)
(*        HAVE_NTFS_MNT_RDONLY (old_lib), whether MALLOC() gives memory    *)
(*        (malloc_ok), and what sd_fixup() returned: the buffer (out),     *)
(*        *size_p (size) and whether the buffer is a new one (fresh)       *)
(***************************************************************************)
\* sizeof(wimlib_SECURITY_DESCRIPTOR_RELATIVE), sizeof(wimlib_ACL),
\* sizeof(SID), offsetof(wimlib_SID, sub_authority) and sizeof(le32)
SizeofDescriptor == 20
SizeofAcl == 8
SizeofSid == 12
OffsetofSubAuthority == 8
SizeofLe32 == 4

wimlib_SE_DACL_PRESENT == 4
wimlib_SE_SACL_PRESENT == 16

\* The offsets of the fields of the descriptor's header.
ControlField == 2
OwnerField == 4
GroupField == 8
SaclField == 12
DaclField == 16

le16_to_cpu_at(d, o) == d[o + 1] + 256 * d[o + 2]

le32_to_cpu_at(d, o) ==
    d[o + 1] + 256 * d[o + 2] + 65536 * d[o + 3] + 16777216 * d[o + 4]

cpu_to_le32(v) ==
    <<v % 256, (v \div 256) % 256, (v \div 65536) % 256, (v \div 16777216) % 256>>

\* Whether the bit mask (a power of two) is set in v.
BitSet(v, mask) == (v \div mask) % 2 = 1

\* sid_size() that counts no sub-authority.
sid_size_no_sub_authority(d, o) == OffsetofSubAuthority

\* sid_size(sid) of the SID at offset o; sub_authority_count is its second
\* byte.
sid_size(d, o) == OffsetofSubAuthority + SizeofLe32 * d[o + 2]

\* owner_valid and group_valid, of the SID at offset o.
SidValid(d, o) ==
    /\ o # 0
    /\ o % 4 = 0
    /\ o <= Len(d) - SizeofSid
    /\ o + sid_size(d, o) <= Len(d)
    /\ o >= SizeofDescriptor

\* The test of sd_fixup() that looks at no position: any ACL that is present.
Affected_anywhere(d, old_lib) ==
    LET control == le16_to_cpu_at(d, ControlField)
        dacl_offset == IF BitSet(control, wimlib_SE_DACL_PRESENT)
                       THEN le32_to_cpu_at(d, DaclField) ELSE 0
        sacl_offset == IF BitSet(control, wimlib_SE_SACL_PRESENT)
                       THEN le32_to_cpu_at(d, SaclField) ELSE 0
    IN  \/ old_lib /\ sacl_offset # 0
        \/ dacl_offset # 0

\* Whether the descriptor ends with an empty ACL of one of the kinds that the
\* library rejects at the end.
Affected(d, old_lib) ==
    LET control == le16_to_cpu_at(d, ControlField)
        dacl_offset == IF BitSet(control, wimlib_SE_DACL_PRESENT)
                       THEN le32_to_cpu_at(d, DaclField) ELSE 0
        sacl_offset == IF BitSet(control, wimlib_SE_SACL_PRESENT)
                       THEN le32_to_cpu_at(d, SaclField) ELSE 0
    IN  \/ old_lib /\ sacl_offset # 0 /\ sacl_offset = Len(d) - SizeofAcl
        \/ dacl_offset # 0 /\ dacl_offset = Len(d) - SizeofAcl

\* d with the four bytes at offset o replaced by bytes.
WithField(d, o, bytes) ==
    [i \in DOMAIN d |-> IF i > o /\ i <= o + SizeofLe32 THEN bytes[i - o] ELSE d[i]]

Unfixed(d) == [out |-> d, size |-> Len(d), fresh |-> FALSE]

\* The end of sd_fixup(): the SID at offset o is moved to the end, field
\* being the offset field of the header that leads to it.
MoveSid(d, field, o, malloc_ok) ==
    IF ~malloc_ok THEN Unfixed(d)
    ELSE [out |-> WithField(d, field, cpu_to_le32(Len(d)))
                     \o SubSeq(d, o + 1, o + sid_size(d, o)),
          size |-> Len(d) + sid_size(d, o),
          fresh |-> TRUE]

\* sd_fixup(_desc, size_p)
sd_fixup(d, old_lib, malloc_ok) ==
    IF Len(d) < SizeofDescriptor THEN Unfixed(d)
    ELSE IF ~Affected(d, old_lib) THEN Unfixed(d)
    ELSE IF SidValid(d, le32_to_cpu_at(d, OwnerField))
    THEN MoveSid(d, OwnerField, le32_to_cpu_at(d, OwnerField), malloc_ok)
    ELSE IF SidValid(d, le32_to_cpu_at(d, GroupField))
    THEN MoveSid(d, GroupField, le32_to_cpu_at(d, GroupField), malloc_ok)
    ELSE Unfixed(d)

\* The bytes of a SID of count sub-authorities and of an empty ACL.
RECURSIVE SubAuthorities(_)
SubAuthorities(count) ==
    IF count = 0 THEN <<>> ELSE <<21, 0, 0, 0>> \o SubAuthorities(count - 1)

SidBytes(count) == <<1, count, 0, 0, 0, 0, 0, 5>> \o SubAuthorities(count)

EmptyAcl == <<2, 0, 8, 0, 0, 0, 0, 0>>

\* What follows the header in the descriptors tried.
Bodies ==
    {SidBytes(1) \o EmptyAcl,
     SidBytes(0) \o SidBytes(MaxSubAuthorities) \o EmptyAcl,
     EmptyAcl \o SidBytes(1),
     EmptyAcl,
     SidBytes(1) \o EmptyAcl \o EmptyAcl}

\* The offsets tried in the header of a descriptor of size bytes: none, that
\* of the first byte after the header and of the SID after a SID without
\* sub-authorities, one that is not aligned, one inside the header, that of
\* the ACL at the end and of the ACL before it, and one beyond 2^24.  The
\* ACL offsets tried are none, that of the first byte after the header, of
\* the ACL at the end and of the ACL before it, and two that the header of
\* a malformed descriptor can hold: the size and four bytes past the size.
SidOffsets(size) ==
    {0, SizeofDescriptor, SizeofDescriptor + OffsetofSubAuthority,
     SizeofDescriptor + 2, SizeofDescriptor - SizeofLe32, size - SizeofAcl,
     16777216 + SizeofDescriptor}

AclOffsets(size) ==
    {0, SizeofDescriptor, size - SizeofAcl, size - 2 * SizeofAcl,
     size, size + SizeofLe32}

Header(control, owner, group, sacl, dacl) ==
    <<1, 0, control, 128>> \o cpu_to_le32(owner) \o cpu_to_le32(group)
                           \o cpu_to_le32(sacl) \o cpu_to_le32(dacl)

Descriptors ==
    {<<1, 0, wimlib_SE_DACL_PRESENT, 128, 0, 0, 0, 0>>}
    \cup UNION {
        {Header(control, owner, group, sacl, dacl) \o body :
            control \in {0, wimlib_SE_DACL_PRESENT, wimlib_SE_SACL_PRESENT,
                         wimlib_SE_DACL_PRESENT + wimlib_SE_SACL_PRESENT},
            owner \in SidOffsets(SizeofDescriptor + Len(body))
                        \ {SizeofDescriptor - SizeofLe32},
            group \in SidOffsets(SizeofDescriptor + Len(body))
                        \ {SizeofDescriptor + 2, 16777216 + SizeofDescriptor},
            sacl \in AclOffsets(SizeofDescriptor + Len(body)) \ {SizeofDescriptor},
            dacl \in AclOffsets(SizeofDescriptor + Len(body))
                        \ {SizeofDescriptor + Len(body) - 2 * SizeofAcl}} :
        body \in Bodies}

SdIdle == [desc |-> <<>>, called |-> FALSE, old_lib |-> FALSE, malloc_ok |-> TRUE,
           out |-> <<>>, size |-> 0, fresh |-> FALSE]

SdUnused == sd = SdIdle

(***************************************************************************)
(* The security descriptor set of a capture (ntfs-capture.c).              *)
(*   sds   the struct sd_set of a capture and the struct                    *)
(*         wim_security_data it indexes: descriptors[k + 1] is              *)
(*         sd->descriptors[k] (sd->sizes[k] is its length), tree the nodes *)
(*         <<hash, security_id>> of the red-black tree, adds the calls of  *)
(*         sd_set_add_sd() made: <<descriptor, value returned>>            *)
(* A descriptor is a sequence of bytes.                                    *)
(***************************************************************************)
\* sizeof(sd->sizes[0]), a u64.
SizeofSizesEntry == 8

\* sha1_buffer() of a descriptor: a digest computed from every byte and the
\* length.  No two of the descriptors tried have the same digest.
RECURSIVE DigestFrom(_, _)
DigestFrom(h, bytes) ==
    IF bytes = <<>> THEN h
    ELSE DigestFrom((h * 257 + bytes[1] + 1) % 65521, Tail(bytes))

sd_digest(descriptor) == DigestFrom(Len(descriptor) + 1, descriptor)

\* lookup_sd() that finds no node.
lookup_sd_none(tree, hash) == 0 - 1

\* lookup_sd(): the security ID of the node of the hash, or -1.
lookup_sd(tree, hash) ==
    IF \E node \in tree : node[1] = hash
    THEN (CHOOSE node \in tree : node[1] = hash)[2]
    ELSE 0 - 1

\* sd_set_add_sd(): fail_at is the allocation that fails, of the MALLOC of
\* the node, the MALLOC of the copy, the REALLOC of sd->descriptors and the
\* REALLOC of sd->sizes; 0 when none does.
sd_set_add_sd(set, descriptor, fail_at) ==
    LET hash == sd_digest(descriptor)
        security_id == lookup_sd(set.tree, hash)
    IN  IF security_id >= 0 THEN [set |-> set, ret |-> security_id]
        ELSE IF fail_at \in 1 .. 4 THEN [set |-> set, ret |-> 0 - 1]
        ELSE [set |-> [set EXCEPT
                          !.descriptors = Append(@, descriptor),
                          !.num_entries = @ + 1,
                          !.total_length = @ + Len(descriptor) + SizeofSizesEntry,
                          !.tree = @ \cup {<<hash, set.num_entries>>}],
              ret |-> set.num_entries]

\* The descriptors the captured files have.
SecurityDescriptors ==
    {<<1, 0, 4, 128>>, <<1, 0, 4, 128, 0>>, <<1, 0, 20, 128>>, <<128, 4, 0, 1>>}

\* A new struct wim_security_data and the set build_dentry_tree_ntfs() makes
\* for it.
SdSetEmpty ==
    [descriptors |-> <<>>, num_entries |-> 0, total_length |-> 0, tree |-> {},
     adds |-> <<>>]

(***************************************************************************)
(* build_dentry_tree_ntfs_recursive() (ntfs-capture.c) on a volume.  A      *)
(* volume is a sequence of inodes, the first the root: kind is "dir",      *)
(* "file" or "reparse", kids the inodes ntfs_readdir() gives for a         *)
(* directory, in its order, streams the data streams <<named, content>>,   *)
(* acl the security descriptor, <<>> when the inode has none.  The capture *)
(* configuration is the set of the inodes whose paths it excludes.         *)
(*   scan  the capture: the volume, the configuration, whether             *)
(*         WIMLIB_ADD_IMAGE_FLAG_VERBOSE and a progress function were      *)
(*         given, fail = <<inode, step>> the step made to fail, w the      *)
(*         lookup table, sd the security descriptor set, dentries the      *)
(*         inodes a dentry was made for, progress the calls of the         *)
(*         progress function <<inode, excluded>>, events the calls         *)
(*         <<function, inode>> that read the volume, root what *root_p     *)
(*         of the outermost call holds, ret the value it returned          *)
(***************************************************************************)
VolInode(kind, kids, streams, acl) ==
    [kind |-> kind, kids |-> kids, streams |-> streams, acl |-> acl]

ScanVolumes ==
    {<<VolInode("dir", <<2, 3, 5>>, <<>>, <<1, 0, 4, 128>>),
       VolInode("file", <<>>, << <<FALSE, 1>> >>, <<1, 0, 4, 128, 0>>),
       VolInode("dir", <<4>>, <<>>, <<1, 0, 20, 128>>),
       VolInode("file", <<>>, << <<FALSE, 2>>, <<TRUE, 3>> >>, <<1, 0, 4, 128>>),
       VolInode("reparse", <<>>, << <<FALSE, 1>> >>, <<>>)>>,
     <<VolInode("dir", <<2, 3>>, <<>>, <<>>),
       VolInode("file", <<>>, << <<FALSE, 0>> >>, <<128, 4, 0, 1>>),
       VolInode("file", <<>>, << <<FALSE, 2>> >>, <<128, 4, 0, 1>>)>>}

\* exclude_path(path, config, false)
exclude_path(st, n) == n \in st.config

\* The report made whenever the flag is given.
ScanProgress_flag_only(st, n, excluded) ==
    IF st.verbose
    THEN [st EXCEPT !.progress = Append(@, <<n, excluded>>)]
    ELSE st

\* progress_func(WIMLIB_PROGRESS_MSG_SCAN_DENTRY, &info), when asked for.
ScanProgress(st, n, excluded) ==
    IF st.verbose /\ st.progress_func
    THEN [st EXCEPT !.progress = Append(@, <<n, excluded>>)]
    ELSE st

ScanFails(st, n, what) == st.fail = <<n, what>>

ScanEvent(st, what, n) == [st EXCEPT !.events = Append(@, <<what, n>>)]

\* capture_ntfs_streams() for the inode, on the lookup table of the capture.
ScanStreams(st, n) ==
    LET got == capture_ntfs_streams(
                   [w |-> st.w, k |-> 0, i_lte |-> NULL, lte |-> NULL,
                    hashes |-> <<>>, done |-> FALSE, ret |-> SUCCESS,
                    ub |-> "kept"],
                   st.vol[n].streams,
                   IF ScanFails(st, n, "ntfs_attr_sha1sum") THEN 1 ELSE 0,
                   "ntfs_attr_sha1sum")
    IN  [ScanEvent(st, "capture_ntfs_streams", n)
         EXCEPT !.w = got.w, !.ret = got.ret]

\* The security descriptor of the inode is got and added to the set.
ScanSecurity(st, n) ==
    IF st.ret # SUCCESS THEN st
    ELSE IF ScanFails(st, n, "getxattr_acl")
    THEN [ScanEvent(st, "getxattr_acl", n) EXCEPT !.ret = WIMLIB_ERR_NTFS_3G]
    ELSE IF st.vol[n].acl = <<>> THEN ScanEvent(st, "getxattr_acl", n)
    ELSE LET got == sd_set_add_sd(st.sd, st.vol[n].acl,
                                  IF ScanFails(st, n, "sd_set_add_sd")
                                  THEN 1 ELSE 0)
         IN  [ScanEvent(st, "getxattr_acl", n)
              EXCEPT !.sd = got.set,
                     !.ret = IF got.ret = 0 - 1 THEN WIMLIB_ERR_NOMEM
                             ELSE SUCCESS]

RECURSIVE build_dentry_tree_ntfs_recursive(_, _, _)
RECURSIVE ScanKids(_, _)

\* ntfs_readdir() with wim_ntfs_capture_filldir() for each entry, until one
\* returns nonzero.
ScanKids(st, kids) ==
    IF kids = <<>> \/ st.ret # SUCCESS THEN st
    ELSE IF ScanFails(st, kids[1], "ntfs_inode_open")
    THEN ScanKids(ScanEvent(st, "ntfs_inode_open", kids[1]), Tail(kids))
    ELSE ScanKids(build_dentry_tree_ntfs_recursive(
                      ScanEvent(st, "ntfs_inode_open", kids[1]), kids[1], FALSE),
                  Tail(kids))

\* The directory branch: a failure below comes back as WIMLIB_ERR_NTFS_3G.
ScanDir(st, n) ==
    LET got == ScanKids(ScanEvent(st, "ntfs_readdir", n), st.vol[n].kids)
    IN  IF got.ret # SUCCESS \/ ScanFails(st, n, "ntfs_readdir")
        THEN [got EXCEPT !.ret = WIMLIB_ERR_NTFS_3G]
        ELSE IF ScanFails(st, n, "set_dentry_dos_name")
        THEN [got EXCEPT !.ret = WIMLIB_ERR_NOMEM]
        ELSE got

build_dentry_tree_ntfs_recursive(st, n, outermost) ==
    IF exclude_path(st, n)
    THEN [ScanProgress(st, n, TRUE) EXCEPT !.root = IF outermost THEN NULL ELSE @]
    ELSE IF ScanFails(st, n, "getxattr_attrib")
    THEN [ScanEvent(st, "getxattr_attrib", n) EXCEPT !.ret = WIMLIB_ERR_NTFS_3G]
    ELSE IF ScanFails(st, n, "new_dentry")
    THEN [ScanProgress(ScanEvent(st, "getxattr_attrib", n), n, FALSE)
          EXCEPT !.ret = WIMLIB_ERR_NOMEM]
    ELSE LET made == [ScanProgress(ScanEvent(st, "getxattr_attrib", n), n, FALSE)
                      EXCEPT !.dentries = @ \cup {n},
                             !.root = IF outermost THEN n ELSE @]
         IN  ScanSecurity(IF st.vol[n].kind = "dir" THEN ScanDir(made, n)
                          ELSE ScanStreams(made, n),
                          n)

ScanIdle ==
    [vol |-> <<>>, config |-> {}, verbose |-> FALSE, progress_func |-> FALSE,
     fail |-> <<0, "none">>, dentries |-> {}, progress |-> <<>>,
     events |-> <<>>, root |-> NULL, ret |-> SUCCESS, called |-> FALSE,
     w |-> WimEmpty, sd |-> SdSetEmpty]

(***************************************************************************)
(* set_windows_specific_info() of xml_windows.c: the properties of an      *)
(* image inferred from kernel32.dll and the SOFTWARE and SYSTEM hives.     *)
(* The image is what the function can see of it: for each of the three     *)
(* paths whether the file is there, whether it has contents, what reading  *)
(* it gives, and what the hive functions answer; `set' is what             *)
(* wimlib_set_image_property() returns.                                    *)
(***************************************************************************)
HIVE_OK == "HIVE_OK"
HIVE_OUT_OF_MEMORY == "HIVE_OUT_OF_MEMORY"
HIVE_CORRUPT == "HIVE_CORRUPT"
HIVE_VALUE_NOT_FOUND == "HIVE_VALUE_NOT_FOUND"

kernel32_dll_path == "\\Windows\\System32\\kernel32.dll"
software_hive_path == "\\Windows\\System32\\config\\SOFTWARE"
system_hive_path == "\\Windows\\System32\\config\\SYSTEM"

\* load_file_contents() takes NOMEM for a real shortage of memory only when
\* the file is smaller than this.
HugeFileSize == 100000000

IMAGE_FILE_MACHINE_I386 == 332
IMAGE_FILE_MACHINE_AMD64 == 34404
PROCESSOR_ARCHITECTURE_INTEL == 0
PROCESSOR_ARCHITECTURE_AMD64 == 9

pe_arch_to_windows_arch(pe_arch) ==
    IF pe_arch = IMAGE_FILE_MACHINE_I386 THEN PROCESSOR_ARCHITECTURE_INTEL
    ELSE IF pe_arch = IMAGE_FILE_MACHINE_AMD64 THEN PROCESSOR_ARCHITECTURE_AMD64
    ELSE -1

\* A message printed whatever the environment says.
WARNING(xc, text) == [xc EXCEPT !.warnings = Append(@, text)]

\* #define XML_WARN(format, ...) if (ctx->debug_enabled) WARNING(...)
XML_WARN(xc, text) == IF xc.debug_enabled THEN WARNING(xc, text) ELSE xc

\* A call the function made and the status it got, kept in the order of the
\* calls.
XmlCall(xc, name, what, status) ==
    [xc EXCEPT !.calls = Append(@, <<name, what, status>>)]

\* ctx->oom_encountered |= cond; every value the flag takes is kept.
OomSeen_assigned(xc, cond) ==
    [xc EXCEPT !.oom_encountered = cond, !.flags = Append(@, cond)]

OomSeen(xc, cond) ==
    [xc EXCEPT !.oom_encountered = @ \/ cond,
                !.flags = Append(@, xc.oom_encountered \/ cond)]

set_string_property(xc, name) ==
    LET ret == xc.set
        called == XmlCall(xc, "wimlib_set_image_property", name, ret)
    IN  IF ret = SUCCESS THEN called
        ELSE WARNING(OomSeen(called, ret = WIMLIB_ERR_NOMEM),
                     "Failed to set image property")

set_number_property(xc, name) == set_string_property(xc, name)

check_hive_status(xc, status) ==
    IF status = HIVE_OK THEN [ctx |-> xc, ok |-> TRUE]
    ELSE [ctx |-> XML_WARN(OomSeen(xc, status = HIVE_OUT_OF_MEMORY), status),
          ok |-> FALSE]

is_registry_valid(xc, regf) ==
    check_hive_status(XmlCall(xc, "hive_validate", "", regf.validate),
                      regf.validate)

\* What the hive answers for one value: the status of all its lookups, or
\* that the value is not there.
HiveStatus(regf, value_name) ==
    IF regf.get # HIVE_OK THEN regf.get
    ELSE IF value_name \in regf.absent THEN HIVE_VALUE_NOT_FOUND
    ELSE HIVE_OK

get_string_from_registry(xc, regf, value_name) ==
    check_hive_status(XmlCall(xc, "hive_get_string", value_name,
                              HiveStatus(regf, value_name)),
                      HiveStatus(regf, value_name))

get_number_from_registry(xc, regf, value_name) ==
    check_hive_status(XmlCall(xc, "hive_get_number", value_name,
                              HiveStatus(regf, value_name)),
                      HiveStatus(regf, value_name))

list_subkeys_in_registry(xc, regf) ==
    check_hive_status(XmlCall(xc, "hive_list_subkeys", "UILanguages", regf.get),
                      regf.get)

copy_registry_string(xc, regf, value_name, property_name) ==
    LET got == get_string_from_registry(xc, regf, value_name)
    IN  IF got.ok THEN set_string_property(got.ctx, property_name) ELSE got.ctx

set_info_from_kernel32(xc, contents) ==
    IF ~contents.valid_pe
    THEN XML_WARN(xc, "kernel32.dll is not a valid PE binary.")
    ELSE IF pe_arch_to_windows_arch(contents.pe_arch) >= 0
    THEN set_number_property(xc, "WINDOWS/ARCH")
    ELSE XML_WARN(xc, "Architecture value not recognized")

\* The version numbers of set_info_from_software_hive(): the two numbers of
\* Windows 10, else the ones scanned from the string CurrentVersion.
SoftwareVersion(xc, regf) ==
    LET major == get_number_from_registry(xc, regf, "CurrentMajorVersionNumber")
        minor == get_number_from_registry(major.ctx, regf,
                                          "CurrentMinorVersionNumber")
    IN  IF major.ok /\ minor.ok
        THEN [ctx |-> minor.ctx, major_version |-> 10, minor_version |-> 0]
        ELSE LET str == get_string_from_registry(minor.ctx, regf, "CurrentVersion")
             IN  IF ~str.ok
                 THEN [ctx |-> str.ctx,
                       major_version |-> IF major.ok THEN 10 ELSE -1,
                       minor_version |-> IF minor.ok THEN 0 ELSE -1]
                 ELSE IF regf.garbled
                 THEN [ctx |-> XML_WARN(str.ctx, "Unrecognized CurrentVersion"),
                       major_version |-> IF major.ok THEN 10 ELSE -1,
                       minor_version |-> IF minor.ok THEN 0 ELSE -1]
                 ELSE [ctx |-> str.ctx, major_version |-> 6, minor_version |-> 3]

set_info_from_software_hive(xc, regf) ==
    LET c1 == copy_registry_string(xc, regf, "EditionID", "FLAGS")
        c2 == copy_registry_string(c1, regf, "ProductName", "DISPLAYNAME")
        c3 == copy_registry_string(c2, regf, "ProductName", "DISPLAYDESCRIPTION")
        c4 == copy_registry_string(c3, regf, "EditionID", "WINDOWS/EDITIONID")
        c5 == copy_registry_string(c4, regf, "InstallationType",
                                   "WINDOWS/INSTALLATIONTYPE")
        c6 == copy_registry_string(c5, regf, "ProductName", "WINDOWS/PRODUCTNAME")
        v  == SoftwareVersion(c6, regf)
        c7 == IF v.major_version >= 0
              THEN LET m == set_number_property(v.ctx, "WINDOWS/VERSION/MAJOR")
                   IN  IF v.minor_version >= 0
                       THEN set_number_property(m, "WINDOWS/VERSION/MINOR")
                       ELSE m
              ELSE v.ctx
    IN  copy_registry_string(c7, regf, "CurrentBuild", "WINDOWS/VERSION/BUILD")

set_default_language(xc, regf) ==
    LET got == get_string_from_registry(xc, regf, "InstallLanguage")
    IN  IF ~got.ok THEN got.ctx
        ELSE IF ~regf.garbled
        THEN set_string_property(got.ctx, "WINDOWS/LANGUAGES/DEFAULT")
        ELSE XML_WARN(got.ctx, "Unrecognized InstallLanguage")

RECURSIVE SetLanguages(_, _)
SetLanguages(xc, left) ==
    IF left = 0 THEN xc
    ELSE SetLanguages(set_string_property(xc, "WINDOWS/LANGUAGES/LANGUAGE"),
                      left - 1)

set_info_from_system_hive(xc, regf) ==
    LET spbuild == get_number_from_registry(xc, regf, "CSDBuildNumber")
        c1 == IF spbuild.ok
              THEN set_number_property(spbuild.ctx, "WINDOWS/VERSION/SPBUILD")
              ELSE spbuild.ctx
        splevel == get_number_from_registry(c1, regf, "CSDVersion")
        c2 == IF splevel.ok
              THEN set_number_property(splevel.ctx, "WINDOWS/VERSION/SPLEVEL")
              ELSE splevel.ctx
        c3 == copy_registry_string(c2, regf, "ProductType", "WINDOWS/PRODUCTTYPE")
        c4 == copy_registry_string(c3, regf, "ProductSuite", "WINDOWS/PRODUCTSUITE")
        c5 == copy_registry_string(c4, regf, "MatchingDeviceId", "WINDOWS/HAL")
        subkeys == list_subkeys_in_registry(c5, regf)
        c6 == IF subkeys.ok THEN SetLanguages(subkeys.ctx, regf.subkeys)
              ELSE subkeys.ctx
    IN  set_default_language(c6, regf)

\* The file of the image at `path' read into memory, or nothing.
load_file_contents(xc, path) ==
    LET file == xc.image[path]
        tried == [xc EXCEPT !.loads = Append(@, path)]
    IN  IF ~file.dentry
        THEN [ctx |-> XML_WARN(tried, "File not found"), loaded |-> FALSE]
        ELSE IF ~file.blob
        THEN [ctx |-> XML_WARN(tried, "File has no contents"), loaded |-> FALSE]
        ELSE IF file.read # SUCCESS
        THEN [ctx |-> OomSeen(XML_WARN(XmlCall(tried, "read_blob_into_alloc_buf",
                                               path, file.read),
                                       "Error loading file"),
                              file.read = WIMLIB_ERR_NOMEM
                              /\ file.size < HugeFileSize),
              loaded |-> FALSE]
        ELSE [ctx |-> XmlCall(tried, "read_blob_into_alloc_buf", path, SUCCESS),
              loaded |-> TRUE]

load_hive(xc, path) ==
    LET file == load_file_contents(xc, path)
    IN  IF ~file.loaded THEN file
        ELSE LET valid == is_registry_valid(file.ctx, xc.image[path].contents)
             IN  IF valid.ok THEN [ctx |-> valid.ctx, loaded |-> TRUE]
                 ELSE [ctx |-> XML_WARN(valid.ctx, "not a valid registry hive!"),
                       loaded |-> FALSE]

\* tgetenv(T("WIMLIB_DEBUG_XML_INFO")) != NULL
tgetenv(env, name) == name \in env

set_windows_specific_info(env, image, set) ==
    LET xc == [image |-> image, set |-> set,
                oom_encountered |-> FALSE,
                debug_enabled |-> tgetenv(env, "WIMLIB_DEBUG_XML_INFO"),
                warnings |-> <<>>, calls |-> <<>>, loads |-> <<>>,
                flags |-> <<FALSE>>]
        k == load_file_contents(xc, kernel32_dll_path)
        c1 == IF k.loaded
              THEN set_info_from_kernel32(
                       set_string_property(k.ctx, "WINDOWS/SYSTEMROOT"),
                       image[kernel32_dll_path].contents)
              ELSE k.ctx
        sw == load_hive(c1, software_hive_path)
        c2 == IF sw.loaded
              THEN set_info_from_software_hive(sw.ctx,
                                               image[software_hive_path].contents)
              ELSE sw.ctx
        sy == load_hive(c2, system_hive_path)
        c3 == IF sy.loaded
              THEN set_info_from_system_hive(sy.ctx,
                                             image[system_hive_path].contents)
              ELSE sy.ctx
    IN  [ctx |-> c3,
         ret |-> IF c3.oom_encountered THEN WIMLIB_ERR_NOMEM ELSE SUCCESS]

\* The contents a file of the image may have: those of a program and those
\* of a hive.
PeContents ==
    { [valid_pe |-> TRUE, pe_arch |-> IMAGE_FILE_MACHINE_AMD64],
      [valid_pe |-> TRUE, pe_arch |-> 0],
      [valid_pe |-> FALSE, pe_arch |-> 0] }

GoodHive ==
    [validate |-> HIVE_OK, get |-> HIVE_OK, absent |-> {}, garbled |-> FALSE,
     subkeys |-> 1]

HiveContents ==
    { GoodHive,
      [GoodHive EXCEPT !.validate = HIVE_CORRUPT],
      [GoodHive EXCEPT !.validate = HIVE_OUT_OF_MEMORY],
      [GoodHive EXCEPT !.get = HIVE_OUT_OF_MEMORY],
      [GoodHive EXCEPT !.absent = {"CurrentMajorVersionNumber", "CSDVersion"},
                       !.garbled = TRUE] }

\* The ways the file of one path is, given the contents it may have.
ImageFiles(contents) ==
    LET some == CHOOSE c \in contents : TRUE
        there == [dentry |-> TRUE, blob |-> TRUE, size |-> 4096,
                  read |-> SUCCESS, contents |-> some]
    IN  { [there EXCEPT !.contents = c] : c \in contents }
        \cup { [there EXCEPT !.dentry = FALSE],
               [there EXCEPT !.read = WIMLIB_ERR_NOMEM],
               [there EXCEPT !.read = WIMLIB_ERR_NOMEM, !.size = HugeFileSize],
               [there EXCEPT !.read = WIMLIB_ERR_READ] }

XmlImage(k32, software, system) ==
    (kernel32_dll_path :> k32) @@ (software_hive_path :> software)
        @@ (system_hive_path :> system)

XmlEnvironments == SUBSET {"WIMLIB_DEBUG_XML_INFO", "DEBUG_XML_INFO"}

XmlIdle ==
    [called |-> FALSE, env |-> {}, ctx |-> [x |-> 0], ret |-> SUCCESS]

(***************************************************************************)
(* get_resource_entry() of resource.c: a resource entry as it is on disk,  *)
(* 24 bytes, into a struct resource_entry.  A 64-bit number is the         *)
(* sequence of its four 16-bit digits, the most significant first, so      *)
(* that no number of the model exceeds 16 bits.                            *)
(***************************************************************************)
\* The bitwise and of two numbers of `bits' bits.
RECURSIVE BitAnd(_, _, _)
BitAnd(a, b, bits) ==
    IF bits = 0 THEN 0
    ELSE (a % 2) * (b % 2) + 2 * BitAnd(a \div 2, b \div 2, bits - 1)

\* The digit of a 64-bit number made of the two bytes at p[at] and p[at + 1],
\* or of the one byte at p[at] where the number has no more bytes.
LeDigit(p, at, last) ==
    IF at + 1 <= last THEN p[at] + 256 * p[at + 1] ELSE p[at]

\* The little-endian number of the n bytes of p from position `at' on.
get_le(p, at, n) ==
    [d \in 1 .. 4 |->
        LET first == at + 2 * (4 - d)
        IN  IF first <= at + n - 1 THEN LeDigit(p, first, at + n - 1) ELSE 0]

get_u56(p, at) == get_le(p, at, 7)

get_u64(p, at) == get_le(p, at, 8)

get_u8(p, at) == p[at]

\* 0xc000000000000000 and 0x3fffffffffffffff, as their most significant
\* digits; the other digits of the first are zero and those of the second
\* are all ones.
ReservedBits == 49152

KeptBits == 16383

\* v & 0xc000000000000000ULL
Reserved(v) == BitAnd(v[1], ReservedBits, 16)

\* v &= 0x3fffffffffffffffULL
Truncate(v, mask) == [v EXCEPT ![1] = BitAnd(@, mask, 16)]

get_resource_entry_one_bit(p) ==
    LET offset == get_u64(p, 9)
        original_size == get_u64(p, 17)
    IN  [entry |->
            [size |-> get_u56(p, 1),
             flags |-> get_u8(p, 8),
             offset |-> IF Reserved(offset) # 0
                        THEN Truncate(offset, 32767) ELSE offset,
             original_size |-> IF Reserved(original_size) # 0
                               THEN Truncate(original_size, 32767)
                               ELSE original_size],
         warnings |->
            (IF Reserved(offset) # 0
             THEN <<"Truncating offset in resource entry">> ELSE <<>>)
            \o (IF Reserved(original_size) # 0
                THEN <<"Truncating original_size in resource entry">>
                ELSE <<>>),
         next |-> 1 + 7 + 1 + 8 + 8]

get_resource_entry(p) ==
    LET offset == get_u64(p, 9)
        original_size == get_u64(p, 17)
    IN  [entry |->
            [size |-> get_u56(p, 1),
             flags |-> get_u8(p, 8),
             offset |-> IF Reserved(offset) # 0
                        THEN Truncate(offset, KeptBits) ELSE offset,
             original_size |-> IF Reserved(original_size) # 0
                               THEN Truncate(original_size, KeptBits)
                               ELSE original_size],
         warnings |->
            (IF Reserved(offset) # 0
             THEN <<"Truncating offset in resource entry">> ELSE <<>>)
            \o (IF Reserved(original_size) # 0
                THEN <<"Truncating original_size in resource entry">>
                ELSE <<>>),
         next |-> 1 + 7 + 1 + 8 + 8]

\* The most significant bytes an offset or a size is given.
TopBytes == {0, 63, 64, 128, 192, 255}

\* The records read: every byte differs from its neighbours, and the bytes
\* at the ends of the fields vary.
DiskEntries ==
    LET plain == [k \in 1 .. 24 |-> k]
    IN  { [plain EXCEPT ![1] = low, ![7] = high, ![8] = flags,
                        ![16] = top1, ![24] = top2] :
            low \in {0, 1}, high \in {7, 255}, flags \in {0, 2, 255},
            top1 \in TopBytes, top2 \in TopBytes }

EntIdle ==
    [called |-> FALSE, p |-> <<>>, warnings |-> <<>>, next |-> 1,
     entry |-> [size |-> <<0, 0, 0, 0>>, flags |-> 0, offset |-> <<0, 0, 0, 0>>,
                original_size |-> <<0, 0, 0, 0>>]]

(***************************************************************************)
(* full_write() of resource.c: the loop that writes a buffer of n bytes to *)
(* a file descriptor.  The bytes of buf are numbered 1 .. n; a byte that   *)
(* write() took from behind the end of buf has a number above n.           *)
(*   pc       "idle", "loop" (at the test of the while), "done"            *)
(*   total    bytes written so far, as the function counts them            *)
(*   p        how far p is from buf                                        *)
(*   written  the bytes the descriptor received, in order                  *)
(*   eintr    the writes that were interrupted                             *)
(*   ret      what full_write() returned                                   *)
(*   status   what extract_wim_chunk_to_fd() returned                      *)
(***************************************************************************)
FwIdle ==
    [pc |-> "idle", n |-> 0, total |-> 0, p |-> 0, written |-> <<>>,
     eintr |-> 0, ret |-> 0, status |-> SUCCESS]

\* write(fd, p, count) that wrote r bytes: the bytes at p, p + 1, ...
\* reach the descriptor.
WriteBytes(st, r) ==
    [st EXCEPT !.written = @ \o [k \in 1 .. r |-> st.p + k],
               !.total = @ + r,
               !.p = @ + r]

\* The number of bytes the loop asks write() for.
WriteCount(st) == st.n

\* return total; and the test of it in extract_wim_chunk_to_fd().
FwReturn(st) ==
    [st EXCEPT !.pc = "done", !.ret = st.total,
               !.status = IF st.total < st.n THEN WIMLIB_ERR_WRITE ELSE SUCCESS]

(***************************************************************************)
(* language_id_to_name() of xml_windows.c.  language_id_map is the table   *)
(* of the source, each entry <<id, name_start_offset>>; a name is the      *)
(* place in language_names where it starts.                                *)
(*   id      the id asked for                                              *)
(*   found   whether a name was returned, and not NULL                     *)
(*   name    the name returned                                             *)
(*   probes  the entries of the table the search looked at                 *)
(***************************************************************************)
language_id_map ==
    <<
       <<0, 0>>, <<1, 6>>, <<2, 12>>, <<3, 18>>, <<4, 24>>, <<5, 30>>,
       <<6, 36>>, <<7, 42>>, <<8, 48>>, <<9, 54>>, <<10, 60>>, <<11, 66>>,
       <<12, 72>>, <<13, 78>>, <<14, 84>>, <<15, 90>>, <<16, 96>>, <<17, 102>>,
       <<18, 108>>, <<19, 114>>, <<20, 120>>, <<21, 126>>, <<22, 132>>, <<23, 138>>,
       <<24, 144>>, <<25, 150>>, <<26, 156>>, <<27, 162>>, <<28, 168>>, <<29, 174>>,
       <<30, 180>>, <<31, 186>>, <<32, 192>>, <<33, 198>>, <<34, 204>>, <<35, 210>>,
       <<36, 216>>, <<37, 222>>, <<38, 228>>, <<39, 234>>, <<40, 240>>, <<41, 251>>,
       <<42, 257>>, <<43, 263>>, <<44, 269>>, <<45, 280>>, <<46, 286>>, <<47, 293>>,
       <<48, 299>>, <<49, 305>>, <<50, 311>>, <<51, 317>>, <<52, 323>>, <<53, 329>>,
       <<54, 335>>, <<55, 341>>, <<56, 347>>, <<57, 353>>, <<58, 359>>, <<59, 365>>,
       <<60, 371>>, <<61, 377>>, <<62, 384>>, <<63, 390>>, <<64, 396>>, <<65, 402>>,
       <<66, 408>>, <<67, 414>>, <<68, 425>>, <<69, 431>>, <<70, 437>>, <<71, 443>>,
       <<72, 449>>, <<73, 455>>, <<74, 461>>, <<75, 467>>, <<76, 473>>, <<77, 479>>,
       <<78, 485>>, <<79, 491>>, <<80, 497>>, <<81, 503>>, <<82, 509>>, <<83, 515>>,
       <<84, 521>>, <<85, 527>>, <<86, 533>>, <<87, 539>>, <<88, 546>>, <<89, 553>>,
       <<90, 564>>, <<91, 571>>, <<92, 577>>, <<93, 589>>, <<94, 600>>, <<95, 606>>,
       <<96, 618>>, <<97, 629>>, <<98, 635>>, <<99, 641>>, <<100, 647>>, <<101, 654>>,
       <<102, 660>>, <<103, 667>>, <<104, 678>>, <<105, 689>>, <<106, 696>>, <<107, 702>>,
       <<108, 709>>, <<109, 716>>, <<110, 722>>, <<111, 728>>, <<112, 734>>, <<113, 740>>,
       <<114, 746>>, <<115, 752>>, <<116, 758>>, <<117, 764>>, <<118, 771>>, <<119, 778>>,
       <<120, 784>>, <<121, 790>>, <<122, 798>>, <<124, 805>>, <<126, 812>>, <<127, 818>>,
       <<128, 819>>, <<129, 825>>, <<130, 831>>, <<131, 837>>, <<132, 843>>, <<133, 850>>,
       <<134, 857>>, <<135, 869>>, <<136, 875>>, <<140, 881>>, <<145, 888>>, <<146, 894>>,
       <<1024, 905>>, <<1025, 911>>, <<1026, 917>>, <<1027, 923>>, <<1028, 929>>, <<1029, 935>>,
       <<1030, 941>>, <<1031, 947>>, <<1032, 953>>, <<1033, 959>>, <<1034, 965>>, <<1035, 978>>,
       <<1036, 984>>, <<1037, 990>>, <<1038, 996>>, <<1039, 1002>>, <<1040, 1008>>, <<1041, 1014>>,
       <<1042, 1020>>, <<1043, 1026>>, <<1044, 1032>>, <<1045, 1038>>, <<1046, 1044>>, <<1047, 1050>>,
       <<1048, 1056>>, <<1049, 1062>>, <<1050, 1068>>, <<1051, 1074>>, <<1052, 1080>>, <<1053, 1086>>,
       <<1054, 1092>>, <<1055, 1098>>, <<1056, 1104>>, <<1057, 1110>>, <<1058, 1116>>, <<1059, 1122>>,
       <<1060, 1128>>, <<1061, 1134>>, <<1062, 1140>>, <<1063, 1146>>, <<1064, 1152>>, <<1065, 1163>>,
       <<1066, 1169>>, <<1067, 1175>>, <<1068, 1181>>, <<1069, 1192>>, <<1070, 1198>>, <<1071, 1205>>,
       <<1072, 1211>>, <<1073, 1217>>, <<1074, 1223>>, <<1075, 1229>>, <<1076, 1235>>, <<1077, 1241>>,
       <<1078, 1247>>, <<1079, 1253>>, <<1080, 1259>>, <<1081, 1265>>, <<1082, 1271>>, <<1083, 1277>>,
       <<1085, 1283>>, <<1086, 1290>>, <<1087, 1296>>, <<1088, 1302>>, <<1089, 1308>>, <<1090, 1314>>,
       <<1091, 1320>>, <<1092, 1331>>, <<1093, 1337>>, <<1094, 1343>>, <<1095, 1349>>, <<1096, 1355>>,
       <<1097, 1361>>, <<1098, 1367>>, <<1099, 1373>>, <<1100, 1379>>, <<1101, 1385>>, <<1102, 1391>>,
       <<1103, 1397>>, <<1104, 1403>>, <<1105, 1409>>, <<1106, 1415>>, <<1107, 1421>>, <<1108, 1427>>,
       <<1109, 1433>>, <<1110, 1439>>, <<1111, 1445>>, <<1112, 1452>>, <<1113, 1459>>, <<1114, 1470>>,
       <<1115, 1477>>, <<1116, 1483>>, <<1117, 1495>>, <<1118, 1506>>, <<1119, 1512>>, <<1120, 1524>>,
       <<1121, 1535>>, <<1122, 1541>>, <<1123, 1547>>, <<1124, 1553>>, <<1125, 1560>>, <<1126, 1566>>,
       <<1127, 1573>>, <<1128, 1579>>, <<1129, 1590>>, <<1130, 1597>>, <<1131, 1603>>, <<1132, 1610>>,
       <<1133, 1617>>, <<1134, 1623>>, <<1135, 1629>>, <<1136, 1635>>, <<1137, 1641>>, <<1138, 1647>>,
       <<1139, 1653>>, <<1140, 1659>>, <<1141, 1665>>, <<1142, 1672>>, <<1143, 1679>>, <<1144, 1685>>,
       <<1145, 1691>>, <<1146, 1699>>, <<1148, 1706>>, <<1150, 1713>>, <<1152, 1719>>, <<1153, 1725>>,
       <<1154, 1731>>, <<1155, 1737>>, <<1156, 1743>>, <<1157, 1750>>, <<1158, 1757>>, <<1159, 1769>>,
       <<1160, 1775>>, <<1164, 1781>>, <<1169, 1788>>, <<1170, 1794>>, <<1281, 1805>>, <<1534, 1814>>,
       <<2048, 1824>>, <<2049, 1830>>, <<2051, 1836>>, <<2052, 1851>>, <<2055, 1857>>, <<2057, 1863>>,
       <<2058, 1869>>, <<2060, 1875>>, <<2064, 1881>>, <<2067, 1887>>, <<2068, 1893>>, <<2070, 1899>>,
       <<2072, 1905>>, <<2073, 1911>>, <<2074, 1917>>, <<2077, 1928>>, <<2080, 1934>>, <<2092, 1940>>,
       <<2094, 1951>>, <<2098, 1958>>, <<2107, 1964>>, <<2108, 1970>>, <<2110, 1976>>, <<2115, 1982>>,
       <<2117, 1993>>, <<2118, 1999>>, <<2121, 2010>>, <<2128, 2016>>, <<2137, 2027>>, <<2141, 2038>>,
       <<2143, 2049>>, <<2144, 2061>>, <<2145, 2072>>, <<2151, 2078>>, <<2155, 2089>>, <<2163, 2096>>,
       <<2305, 2102>>, <<2559, 2116>>, <<3072, 2126>>, <<3073, 2132>>, <<3076, 2138>>, <<3079, 2144>>,
       <<3081, 2150>>, <<3082, 2156>>, <<3084, 2162>>, <<3098, 2168>>, <<3131, 2179>>, <<3152, 2185>>,
       <<3153, 2196>>, <<3179, 2202>>, <<4096, 2209>>, <<4097, 2220>>, <<4100, 2226>>, <<4103, 2232>>,
       <<4105, 2238>>, <<4106, 2244>>, <<4108, 2250>>, <<4122, 2256>>, <<4155, 2262>>, <<4191, 2269>>,
       <<5121, 2281>>, <<5124, 2287>>, <<5127, 2293>>, <<5129, 2299>>, <<5130, 2305>>, <<5132, 2311>>,
       <<5146, 2317>>, <<5179, 2328>>, <<6145, 2335>>, <<6153, 2341>>, <<6154, 2347>>, <<6156, 2353>>,
       <<6170, 2359>>, <<6203, 2370>>, <<7169, 2377>>, <<7177, 2383>>, <<7178, 2389>>, <<7180, 2395>>,
       <<7194, 2402>>, <<7227, 2413>>, <<8192, 2420>>, <<8193, 2426>>, <<8201, 2432>>, <<8202, 2438>>,
       <<8204, 2444>>, <<8218, 2450>>, <<8251, 2461>>, <<9216, 2468>>, <<9217, 2474>>, <<9225, 2480>>,
       <<9226, 2487>>, <<9228, 2493>>, <<9242, 2499>>, <<9275, 2510>>, <<10240, 2517>>, <<10241, 2523>>,
       <<10249, 2529>>, <<10250, 2535>>, <<10252, 2541>>, <<10266, 2547>>, <<11264, 2558>>, <<11265, 2564>>,
       <<11273, 2570>>, <<11274, 2576>>, <<11276, 2582>>, <<11290, 2588>>, <<12288, 2599>>, <<12289, 2605>>,
       <<12297, 2611>>, <<12298, 2617>>, <<12300, 2623>>, <<12314, 2629>>, <<13312, 2640>>, <<13313, 2646>>,
       <<13321, 2652>>, <<13322, 2658>>, <<13324, 2664>>, <<14336, 2670>>, <<14337, 2676>>, <<14345, 2682>>,
       <<14346, 2688>>, <<14348, 2694>>, <<15360, 2700>>, <<15361, 2706>>, <<15369, 2712>>, <<15370, 2718>>,
       <<15372, 2724>>, <<16384, 2730>>, <<16385, 2736>>, <<16393, 2742>>, <<16394, 2748>>, <<17408, 2754>>,
       <<17417, 2760>>, <<17418, 2766>>, <<18432, 2772>>, <<18441, 2778>>, <<18442, 2784>>, <<19456, 2790>>,
       <<19466, 2796>>, <<20490, 2802>>, <<21514, 2808>>, <<22538, 2814>>, <<23562, 2821>>, <<25626, 2827>>,
       <<26650, 2838>>, <<27674, 2849>>, <<28698, 2860>>, <<28731, 2871>>, <<29740, 2878>>, <<29755, 2889>>,
       <<30724, 2896>>, <<30740, 2902>>, <<30746, 2908>>, <<30764, 2919>>, <<30779, 2930>>, <<30787, 2937>>,
       <<30800, 2948>>, <<30813, 2954>>, <<30815, 2965>>, <<31748, 2977>>, <<31764, 2983>>, <<31770, 2989>>,
       <<31784, 3000>>, <<31790, 3011>>, <<31803, 3018>>, <<31811, 3025>>, <<31814, 3036>>, <<31824, 3047>>,
       <<31833, 3058>>, <<31836, 3069>>, <<31837, 3081>>, <<31839, 3092>>, <<31847, 3104>>, <<31848, 3115>>,
       <<31878, 3126>>, <<31890, 3138>>
    >>

ARRAY_LEN(array) == Len(array)

\* The loop of language_id_to_name(), l and r counting from 0; it is given
\* up after MaxProbes entries.
RECURSIVE LanguageSearch(_, _, _, _, _)
LanguageSearch(map, id, l, r, probes) ==
    LET m == (l + r) \div 2
    IN  IF probes >= MaxProbes
        THEN [found |-> FALSE, name |-> 0, probes |-> probes, given_up |-> TRUE]
        ELSE IF id < map[m + 1][1]
        THEN IF l <= m - 1 THEN LanguageSearch(map, id, l, m - 1, probes + 1)
             ELSE [found |-> FALSE, name |-> 0, probes |-> probes + 1,
                   given_up |-> FALSE]
        ELSE IF id > map[m + 1][1]
        THEN IF m + 1 <= r THEN LanguageSearch(map, id, m + 1, r, probes + 1)
             ELSE [found |-> FALSE, name |-> 0, probes |-> probes + 1,
                   given_up |-> FALSE]
        ELSE [found |-> TRUE, name |-> map[m + 1][2], probes |-> probes + 1,
              given_up |-> FALSE]

\* language_id_to_name() that leaves the last entry of the table out.
language_id_to_name_short(id) ==
    LanguageSearch(language_id_map, id, 0, ARRAY_LEN(language_id_map) - 2, 0)

language_id_to_name(id) ==
    LanguageSearch(language_id_map, id, 0, ARRAY_LEN(language_id_map) - 1, 0)

LangIdle ==
    [called |-> FALSE, id |-> 0, found |-> FALSE, name |-> 0, probes |-> 0,
     given_up |-> FALSE]

\* The variables of the last sections, where nothing is done with them.
LateUnused == fw = FwIdle /\ lang = LangIdle

\* The variables of the later sections, where nothing is done with them.
MoreUnused ==
    /\ sds = SdSetEmpty /\ scan = ScanIdle /\ xml = XmlIdle /\ ent = EntIdle
    /\ LateUnused

(***************************************************************************)
(* The pool of file handles of a WIM that several threads read at once     *)
(* (read_wim_resource() with WIMLIB_RESOURCE_FLAG_MULTITHREADED).          *)
(*                                                                         *)
(*   fps.fp_tab    w->fp_tab, w->num_allocated_fps being its length; a     *)
(*                 handle is a positive number, NULL an empty slot         *)
(*   fps.mutex     the thread that holds w->fp_tab_mutex, NULL when free   *)
(*   fps.opened    the handles tfopen() has given so far                   *)
(*   fps.faults    the calls of tfopen() and REALLOC() that failed          *)
(*   readers[t]    thread t: where it is in read_wim_resource() (pc), its  *)
(*                 local fp, the read's ret, wim_release_fp()'s ret2       *)
(***************************************************************************)
Readers == 1 .. MaxReaders

PoolEmpty == [fp_tab |-> <<>>, mutex |-> NULL, opened |-> 0, faults |-> 0]

ReaderIdle == [pc |-> "idle", fp |-> NULL, ret |-> SUCCESS, ret2 |-> SUCCESS]

PoolUnused == fps = PoolEmpty /\ readers = [t \in Readers |-> ReaderIdle]

\* The first slot of the table that holds a handle, or that holds none.
FirstSlot(tab, full) ==
    CHOOSE i \in DOMAIN tab :
        /\ (tab[i] # NULL) = full
        /\ \A j \in 1 .. i - 1 : (tab[j] # NULL) # full

HasSlot(tab, full) == \E i \in DOMAIN tab : (tab[i] # NULL) = full

\* wim_get_fp() taking the handle of a slot and leaving it in the table.
TakeSlot_keep(tab, i) == tab

\* w->fp_tab[i] = NULL
TakeSlot(tab, i) == [tab EXCEPT ![i] = NULL]

\* read_wim_resource(lte, buf, size, offset, WIMLIB_RESOURCE_FLAG_MULTITHREADED)
\* is called by thread t.
CallRead(t) ==
    /\ readers[t].pc = "idle"
    /\ readers' = [readers EXCEPT ![t] = [ReaderIdle EXCEPT !.pc = "get_lock"]]
    /\ UNCHANGED <<fps, varsRes, varsApply, varsWim, varsCreate, varsSd, varsMore>>

\* pthread_mutex_lock(&w->fp_tab_mutex) in wim_get_fp()
GetLock(t) ==
    /\ readers[t].pc = "get_lock"
    /\ fps.mutex = NULL
    /\ fps' = [fps EXCEPT !.mutex = t]
    /\ readers' = [readers EXCEPT ![t].pc = "get_scan"]
    /\ UNCHANGED <<varsRes, varsApply, varsWim, varsCreate, varsSd, varsMore>>

\* The loop of wim_get_fp() over the table.
GetScan(t) ==
    /\ readers[t].pc = "get_scan"
    /\ IF HasSlot(fps.fp_tab, TRUE)
       THEN /\ readers' = [readers EXCEPT
                              ![t].fp = fps.fp_tab[FirstSlot(fps.fp_tab, TRUE)],
                              ![t].pc = "get_out"]
            /\ fps' = [fps EXCEPT !.fp_tab = TakeSlot(@, FirstSlot(@, TRUE))]
       ELSE /\ readers' = [readers EXCEPT ![t].pc = "get_open"]
            /\ UNCHANGED fps
    /\ UNCHANGED <<varsRes, varsApply, varsWim, varsCreate, varsSd, varsMore>>

\* fp = tfopen(w->filename, T("rb")), which gives a new handle or NULL.
GetOpen(t, ok) ==
    /\ readers[t].pc = "get_open"
    /\ IF ok
       THEN /\ readers' = [readers EXCEPT ![t].fp = fps.opened + 1,
                                          ![t].pc = "get_out"]
            /\ fps' = [fps EXCEPT !.opened = @ + 1]
       ELSE /\ fps.faults < MaxFaults
            /\ readers' = [readers EXCEPT ![t].fp = NULL, ![t].pc = "get_out"]
            /\ fps' = [fps EXCEPT !.faults = @ + 1]
    /\ UNCHANGED <<varsRes, varsApply, varsWim, varsCreate, varsSd, varsMore>>

\* out: of wim_get_fp(), and read_wim_resource()'s test of what it returned.
GetOut(t) ==
    /\ readers[t].pc = "get_out"
    /\ fps' = [fps EXCEPT !.mutex = NULL]
    /\ readers' = [readers EXCEPT
                      ![t].pc = IF readers[t].fp = NULL THEN "idle" ELSE "reading",
                      ![t].ret = IF readers[t].fp = NULL THEN WIMLIB_ERR_OPEN
                                 ELSE @]
    /\ UNCHANGED <<varsRes, varsApply, varsWim, varsCreate, varsSd, varsMore>>

\* read_uncompressed_resource(fp, ...) or read_compressed_resource(fp, ...)
ReadWith(t, ret) ==
    /\ readers[t].pc = "reading"
    /\ readers' = [readers EXCEPT ![t].ret = ret, ![t].pc = "rel_lock"]
    /\ UNCHANGED <<fps, varsRes, varsApply, varsWim, varsCreate, varsSd, varsMore>>

\* pthread_mutex_lock(&w->fp_tab_mutex) in wim_release_fp()
RelLock(t) ==
    /\ readers[t].pc = "rel_lock"
    /\ fps.mutex = NULL
    /\ fps' = [fps EXCEPT !.mutex = t]
    /\ readers' = [readers EXCEPT ![t].pc = "rel_scan", ![t].ret2 = SUCCESS]
    /\ UNCHANGED <<varsRes, varsApply, varsWim, varsCreate, varsSd, varsMore>>

\* The loop of wim_release_fp() over the table and, if no slot is empty, the
\* REALLOC() of the table to four more slots.
RelScan(t, ok) ==
    /\ readers[t].pc = "rel_scan"
    /\ IF HasSlot(fps.fp_tab, FALSE)
       THEN /\ fps' = [fps EXCEPT !.fp_tab[FirstSlot(fps.fp_tab, FALSE)] =
                                      readers[t].fp]
            /\ readers' = [readers EXCEPT ![t].pc = "rel_out"]
       ELSE IF ok
       THEN /\ fps' = [fps EXCEPT !.fp_tab = @ \o <<readers[t].fp, NULL, NULL, NULL>>]
            /\ readers' = [readers EXCEPT ![t].pc = "rel_out"]
       ELSE /\ fps.faults < MaxFaults
            /\ fps' = [fps EXCEPT !.faults = @ + 1]
            /\ readers' = [readers EXCEPT ![t].pc = "rel_out",
                                          ![t].ret2 = WIMLIB_ERR_NOMEM]
    /\ UNCHANGED <<varsRes, varsApply, varsWim, varsCreate, varsSd, varsMore>>

\* out: of wim_release_fp(), and the end of read_wim_resource().
RelOut(t) ==
    /\ readers[t].pc = "rel_out"
    /\ fps' = [fps EXCEPT !.mutex = NULL]
    /\ readers' = [readers EXCEPT
                      ![t].pc = "idle",
                      ![t].fp = NULL,
                      ![t].ret = IF @ = SUCCESS THEN readers[t].ret2 ELSE @]
    /\ UNCHANGED <<varsRes, varsApply, varsWim, varsCreate, varsSd, varsMore>>

(***************************************************************************)
(* The resource reader's state: the resource and file it reads (res) and   *)
(* the last operation with all it did (rd).                                *)
(***************************************************************************)
RdIdle ==
    [op |-> "idle", offset |-> 0, len |-> 0, fail_at |-> 0, ret |-> SUCCESS,
     out |-> <<>>, chunks |-> <<>>, bufreads |-> <<>>, codec |-> <<>>,
     overflow |-> FALSE, ctx |-> <<>>, delivered |-> <<>>, reads |-> <<>>,
     tabread |-> <<0, 0>>, seeks |-> 0]

\* What read_compressed_resource() may come back with once an fread() has
\* written past the end of compressed_buf.
AfterOverflow ==
    {SUCCESS, WIMLIB_ERR_READ, WIMLIB_ERR_DECOMPRESSION, CRASH}

InitRes ==
    /\ WimUnused
    /\ PoolUnused
    /\ CreateUnused
    /\ SdUnused
    /\ MoreUnused
    /\ res \in Resources
    /\ rd = RdIdle
    /\ ApplyUnused

\* read_wim_resource(lte, buf, len, offset, 0)
ReadWimResource(offset, len) ==
    /\ rd.op = "idle"
    /\ offset + len <= res.original_size
    /\ \E got \in {read_wim_resource(res, len, offset)} :
           \E ret \in IF got.overflow THEN AfterOverflow ELSE {got.ret} :
               rd' = [RdIdle EXCEPT !.op = "read", !.offset = offset, !.len = len,
                                    !.ret = ret, !.out = got.out,
                                    !.chunks = got.chunks,
                                    !.bufreads = got.bufreads,
                                    !.codec = got.codec,
                                    !.tabread = got.tabread,
                                    !.seeks = got.seeks,
                                    !.overflow = got.overflow]
    /\ UNCHANGED <<res, varsApply, varsWim, varsPool, varsCreate, varsSd, varsMore>>

\* read_full_wim_resource(lte, buf, 0)
ReadFullWimResource ==
    /\ rd.op = "idle"
    /\ \E got \in {read_full_wim_resource(res)} :
           \E ret \in IF got.overflow THEN AfterOverflow ELSE {got.ret} :
               rd' = [RdIdle EXCEPT !.op = "read_full",
                                    !.len = wim_resource_size(res),
                                    !.ret = ret, !.out = got.out,
                                    !.chunks = got.chunks,
                                    !.bufreads = got.bufreads,
                                    !.codec = got.codec,
                                    !.tabread = got.tabread,
                                    !.seeks = got.seeks,
                                    !.overflow = got.overflow]
    /\ UNCHANGED <<res, varsApply, varsWim, varsPool, varsCreate, varsSd, varsMore>>

\* extract_wim_resource(lte, size, extract_chunk, arg)
ExtractWimResource(size, fail_at, ub) ==
    /\ rd.op = "idle"
    /\ size <= res.original_size
    /\ \E got \in {extract_wim_resource(res, size, fail_at, ub)} :
           rd' = [RdIdle EXCEPT !.op = "extract", !.len = size,
                                !.fail_at = fail_at,
                                !.ret = got.ret, !.ctx = got.ctx,
                                !.delivered = got.delivered,
                                !.reads = got.reads,
                                !.overflow = got.overflow]
    /\ UNCHANGED <<res, varsApply, varsWim, varsPool, varsCreate, varsSd, varsMore>>

NextRes ==
    \/ \E offset \in Points(res.original_size), end \in Points(res.original_size) :
          offset <= end /\ ReadWimResource(offset, end - offset)
    \/ ReadFullWimResource
    \/ \E size \in Points(res.original_size), fail_at \in 0 .. MaxFail,
          ub \in AfterOverflow :
          ExtractWimResource(size, fail_at, ub)

SpecResource == InitRes /\ [][NextRes]_vars

\* The apply back-end on its own: no resource is read through the reader.
ResUnused ==
    /\ res = Uncompressed(1)
    /\ rd = RdIdle

InitApply ==
    /\ ResUnused
    /\ WimUnused
    /\ PoolUnused
    /\ CreateUnused
    /\ SdUnused
    /\ MoreUnused
    /\ job \in Trees
    /\ ap = ApIdle
    /\ ctx = CtxIdle
    /\ i_visited = {}
    /\ ntfs = NtfsEmpty
    /\ drv = DrvIdle

SpecApply == InitApply /\ [][NextApply]_vars

(***************************************************************************)
(* Properties of the resource reader.                                      *)
(***************************************************************************)
\* The resource is compressed, its chunk table and stored size are as the
\* writer leaves them, and the file holds all of it unaltered.
WellFormedResource ==
    /\ res.ctype # "NONE"
    /\ res.size = TrueEnd(res)
    /\ \A k \in DOMAIN res.tab : res.tab[k] = SumTo(res.tsz, k)
    /\ res.flen >= res.size
    /\ res.seek_fail = 0
    /\ \A j \in DOMAIN res.integ : res.integ[j] = "ok"

\* C3: for a compressed resource with a well-formed chunk table and any
\* offset and len > 0 with offset + len within the uncompressed size,
\* read_compressed_resource succeeds and writes exactly the len bytes
\* [offset, offset+len) of the uncompressed content, also when the range
\* starts or ends inside a chunk and when chunks are stored raw.
C3_ReadGivesRange ==
    (rd.op = "read" /\ rd.len > 0 /\ WellFormedResource)
        => /\ rd.ret = SUCCESS
           /\ rd.out = Orig(rd.offset, rd.len)
           /\ DataLen(rd.out) = rd.len

\* A successful read that starts inside a chunk stored raw and ends inside a
\* compressed one.
C3_Witness ==
    /\ rd.op = "read" /\ WellFormedResource /\ rd.ret = SUCCESS
    /\ rd.offset % WIM_CHUNK_SIZE # 0
    /\ (rd.offset + rd.len) % WIM_CHUNK_SIZE # 0
    /\ Len(rd.chunks) = 2
    /\ StoredRaw(res, rd.chunks[1])
    /\ ~StoredRaw(res, rd.chunks[2])
    /\ Len(rd.codec) = 1

\* The chunks of the last read whose derived compressed size is negative or
\* above WIM_CHUNK_SIZE + Slack.
CorruptChunks ==
    {i \in {rd.chunks[k] : k \in DOMAIN rd.chunks} :
        \/ derived_chunk_size(res, rd.offset \div WIM_CHUNK_SIZE, i) < 0
        \/ derived_chunk_size(res, rd.offset \div WIM_CHUNK_SIZE, i)
              > WIM_CHUNK_SIZE + Slack}

\* C4: whenever a derived compressed chunk size is negative or exceeds
\* 32 KiB plus a small slack, read_compressed_resource fails with an error
\* and does not read the chunk into its fixed-size chunk buffer.
C4_CorruptSizeRejected ==
    (rd.op \in {"read", "read_full"} /\ res.ctype # "NONE")
        => \A i \in CorruptChunks :
              /\ rd.ret \notin {SUCCESS, CRASH}
              /\ \A k \in DOMAIN rd.bufreads : rd.bufreads[k][1] # i

\* C5: a read of a full resource verifies the SHA-1 of the output against the
\* hash of the lookup table entry: it never returns success with bytes whose
\* hash differs, and a mismatch is reported as the invalid-resource-hash
\* error.  No fread() overran the chunk buffer in the reads concerned.
C5_FullReadVerified ==
    /\ (rd.op = "read_full" /\ ~rd.overflow /\ rd.ret = SUCCESS)
          => sha1_buffer(rd.out) = res.hash
    /\ (rd.op = "extract" /\ rd.len = wim_resource_size(res) /\ ~rd.overflow
           /\ rd.ret = SUCCESS)
          => sha1_buffer(rd.ctx) = res.hash

\* The lengths of the pieces handed to the consumer, summed.
RECURSIVE DeliveredTo(_, _)
DeliveredTo(delivered, k) ==
    IF k = 0 THEN 0 ELSE delivered[k][2] + DeliveredTo(delivered, k - 1)

\* C10: extract_wim_resource hands the resource to the consumer as pieces of
\* at most 32768 bytes, the first at offset 0 and each at the offset where
\* the one before ended, whose lengths sum to the requested size when the
\* call succeeds; within one read the chunks are processed in ascending
\* chunk index.
C10_PiecesInOrder ==
    /\ rd.op \in {"read", "read_full"}
          => \A k \in 1 .. Len(rd.chunks) - 1 :
                rd.chunks[k + 1] = rd.chunks[k] + 1
    /\ rd.op = "extract"
        => /\ \A k \in DOMAIN rd.delivered :
                 /\ rd.delivered[k][2] > 0
                 /\ rd.delivered[k][2] <= WIM_CHUNK_SIZE
                 /\ DataLen(rd.delivered[k][3]) = rd.delivered[k][2]
                 /\ rd.delivered[k][1] = DeliveredTo(rd.delivered, k - 1)
           /\ DeliveredTo(rd.delivered, Len(rd.delivered)) <= rd.len
           /\ rd.ret = SUCCESS
                 => DeliveredTo(rd.delivered, Len(rd.delivered)) = rd.len
           /\ \A n \in DOMAIN rd.reads : \A k \in 1 .. Len(rd.reads[n]) - 1 :
                 rd.reads[n][k + 1] = rd.reads[n][k] + 1

\* A successful extraction of a whole compressed resource in more than one
\* piece, the last of them shorter than a chunk.
C10_Witness ==
    /\ rd.op = "extract" /\ rd.ret = SUCCESS
    /\ res.ctype # "NONE"
    /\ Len(rd.delivered) >= 2
    /\ rd.delivered[Len(rd.delivered)][2] < WIM_CHUNK_SIZE

(***************************************************************************)
(* Properties of the NTFS-3g apply back-end.                               *)
(***************************************************************************)
\* The writes that put the first k chunks of a blob of size bytes into a
\* stream: chunk after chunk, each where the one before ended.
RECURSIVE ChunkWrites(_, _)
ChunkWrites(size, k) ==
    IF k = 0 THEN <<>>
    ELSE Append(ChunkWrites(size, k - 1),
                <<(k - 1) * WIM_CHUNK_SIZE, ChunkUsize(size, k - 1), k>>)

\* The first k chunks of a blob of size bytes as they lie in a buffer.
ChunkBytes(size, k) == [c \in 1 .. k |-> <<c, ChunkUsize(size, c - 1)>>]

\* C6: a blob is read once and fanned out.  While its extraction goes well,
\* every target has its stream open (or, for a reparse point, its inode
\* listed) and has received each chunk consumed so far exactly once, at the
\* offset the chunk has in the blob; after a successful end_blob every target
\* has received all of the blob's bytes.
C6_FanOut ==
    /\ (drv.state = "begun" /\ drv.status = SUCCESS)
          => \A i \in DOMAIN drv.blob.targets :
                IF drv.blob.targets[i].stream = "reparse"
                THEN /\ \E k \in DOMAIN ctx.reparse_inodes :
                           ctx.reparse_inodes[k][2] = drv.blob.targets[i].inode
                     /\ ctx.rpdata = ChunkBytes(drv.blob.size, drv.next)
                ELSE /\ \E a \in DOMAIN ctx.open_attrs : ctx.open_attrs[a] = i
                     /\ ntfs.sink[i] = ChunkWrites(drv.blob.size, drv.next)
    /\ (drv.last.call = "end" /\ drv.last.ret = SUCCESS)
          => \A i \in DOMAIN drv.blob.targets :
                IF drv.blob.targets[i].stream = "reparse"
                THEN \E k \in DOMAIN ntfs.set_reparse :
                        /\ ntfs.set_reparse[k][2] = drv.blob.targets[i].inode
                        /\ ntfs.set_reparse[k][3]
                              = ChunkBytes(drv.blob.size, NumChunks(drv.blob.size))
                ELSE ntfs.sink[i]
                        = ChunkWrites(drv.blob.size, NumChunks(drv.blob.size))

\* A blob of more than one chunk has been extracted to MaxTargets streams.
C6_Witness ==
    /\ drv.last.call = "end" /\ drv.last.ret = SUCCESS
    /\ Len(drv.blob.targets) = MaxTargets
    /\ NumChunks(drv.blob.size) >= 2
    /\ \A i \in DOMAIN drv.blob.targets : Len(ntfs.sink[i]) >= 2

\* The steps of the file-structure phase.
StructureSteps ==
    <<"start_file_structure_phase", "ntfs_3g_create_directories",
      "ntfs_3g_create_nondirectories", "end_file_structure_phase">>

\* C7: a blob callback has been invoked only if every directory and every
\* nondirectory file with all its links has been created and each step of the
\* file-structure phase, its end included, has succeeded; once a step of
\* the phase has failed no blob callback is invoked.
C7_StructureBeforeBlobs ==
    /\ drv.ncalls > 0
          => /\ ntfs.dirs = job.ndirs
             /\ ntfs.files = job.links
             /\ \A n \in 1 .. 4 : ap.steps[n + 1] = <<StructureSteps[n], SUCCESS>>
    /\ (\E k \in DOMAIN ap.steps : ap.steps[k][2] # SUCCESS
                                      /\ ap.steps[k][1] # "extract_blob_list"
                                      /\ ap.steps[k][1] # "ntfs_umount")
          => drv.ncalls = 0

\* A blob callback has been invoked for a tree with directories and files.
C7_Witness ==
    /\ drv.ncalls > 0
    /\ job.ndirs > 0
    /\ Len(job.links) > 0

\* C8: after ntfs_3g_begin_extract_blob has failed, and after
\* ntfs_3g_end_extract_blob has returned with whatever status, the context
\* is idle: no attribute and no inode is left open, num_open_attrs,
\* num_open_inodes and num_reparse_inodes are 0, offset is 0 and reparse_ptr
\* is NULL.
C8_IdleAfterBlob ==
    ((drv.last.call = "begin" /\ drv.last.ret # SUCCESS) \/ drv.last.call = "end")
        => /\ Len(ctx.open_attrs) = 0
           /\ Len(ctx.open_inodes) = 0
           /\ Len(ctx.reparse_inodes) = 0
           /\ ctx.offset = 0
           /\ ctx.reparse_ptr = NULL
           /\ ntfs.live_attrs = {}
           /\ ntfs.live_inodes = <<>>

\* A blob that went to a data stream and to a reparse point has ended with an
\* error after a chunk was written.
C8_Witness ==
    /\ drv.last.call = "end" /\ drv.last.status # SUCCESS
    /\ \E i \in DOMAIN drv.blob.targets : ntfs.sink[i] # <<>>
    /\ \E i \in DOMAIN drv.blob.targets : drv.blob.targets[i].stream = "reparse"
    /\ ctx.rpdata # <<>>

\* C9: ntfs_3g_end_extract_blob called with a nonzero status returns exactly
\* that status, also when closing the targets fails, and calls
\* ntfs_set_ntfs_reparse_data for no inode.
C9_FirstErrorKept ==
    (drv.last.call = "end" /\ drv.last.status # SUCCESS)
        => /\ drv.last.ret = drv.last.status
           /\ ntfs.set_reparse = <<>>

\* A blob with a reparse point target has ended with a status of a failed
\* verification, and closing a target failed as well.
C9_Witness ==
    /\ drv.last.call = "end"
    /\ drv.last.status = WIMLIB_ERR_INVALID_RESOURCE_HASH
    /\ drv.last.closed # 0
    /\ \E i \in DOMAIN drv.blob.targets : drv.blob.targets[i].stream = "reparse"


(***************************************************************************)
(* The archive's state machine: images are added from POSIX directories    *)
(* and deleted, and NTFS volumes are captured into the lookup table.       *)
(***************************************************************************)
\* The hashes of the entries of the table that are not metadata resources.
BlobHashes(w) ==
    {w.heap[w.table[k]].hash : k \in {j \in DOMAIN w.table :
                                          ~w.heap[w.table[j]].metadata}}

Range(s) == {s[i] : i \in DOMAIN s}

\* Freed memory that a call could come upon.
HasFreed(w) ==
    \/ \E a \in Addresses : w.heap[a].mem = "freed"
    \/ \E i \in DOMAIN w.image_metadata : w.image_metadata[i].freed

Outcomes(w) == IF HasFreed(w) THEN Dangling ELSE {"kept"}

NoFault == <<0, "none">>

Called(w, ret, by_image_call, fail) ==
    [w EXCEPT !.calls = @ + 1,
              !.faults = IF fail = NoFault THEN @ ELSE @ + 1,
              !.clean = @ /\ by_image_call /\ ret = SUCCESS,
              !.crashed = (ret = CRASH),
              !.last = NoCall]

AddFailures(tree) ==
    {<<k, "none">> : k \in 0 .. NumObjects(tree)}
        \cup {<<0, l>> : l \in {"calculate_dentry_full_path",
                                "add_new_dentry_tree", "xml_add_image"}}

AddImage(tree, boot, fail, ub) ==
    /\ ~wim.crashed
    /\ wim.calls < MaxCalls
    /\ Len(wim.image_metadata) < MaxImages
    /\ fail = NoFault \/ wim.faults < MaxFaults
    /\ boot => fail = NoFault
    /\ \E got \in {wimlib_add_image(wim, tree, boot, fail[1], fail[2], ub)} :
          /\ wim' = Called(got.w, got.ret, TRUE, fail)
          /\ cap' = [kind |-> "posix", ret |-> got.ret,
                     hashes |-> got.refs, before |-> BlobHashes(wim)]
    /\ UNCHANGED <<varsRes, varsApply, varsPool, varsCreate, varsSd, varsMore>>

DeleteImage(image, ub) ==
    /\ ~wim.crashed
    /\ wim.calls < MaxCalls
    /\ \E got \in {wimlib_delete_image(wim, image, ub)} :
          wim' = [Called(got.w, got.ret, TRUE, NoFault)
                  EXCEPT !.last = [op |-> "delete", image |-> image,
                                   ret |-> got.ret,
                                   images |-> wim.image_metadata,
                                   boot_idx |-> wim.boot_idx]]
    /\ cap' = NoCapture
    /\ UNCHANGED <<varsRes, varsApply, varsPool, varsCreate, varsSd, varsMore>>

\* The images an export asks for, and what can be made to fail in one.
ExportFailures ==
    {<<k, "none">> : k \in 0 .. 2}
        \cup {<<0, l>> : l \in {"wimlib_image_name_in_use", "add_new_dentry_tree",
                                "xml_export_image"}}

ExportImage(src, src_image, boot, fail, ub) ==
    /\ ~wim.crashed
    /\ wim.calls < MaxCalls
    /\ Len(wim.image_metadata) + Len(src.image_metadata) <= MaxImages + 1
    /\ fail = NoFault \/ wim.faults < MaxFaults
    /\ boot => fail = NoFault
    /\ src_image = WIM_ALL_IMAGES \/ src_image \in 1 .. Len(src.image_metadata) + 1
    /\ \E got \in {wimlib_export_image(wim, src, src_image, boot, fail, ub)} :
          wim' = [Called(got.w, got.ret, FALSE, fail)
                  EXCEPT !.last = [op |-> "export", src |-> src,
                                   src_image |-> src_image, ret |-> got.ret,
                                   images |-> wim.image_metadata,
                                   heap |-> wim.heap, table |-> wim.table]]
    /\ cap' = NoCapture
    /\ UNCHANGED <<varsRes, varsApply, varsPool, varsCreate, varsSd, varsMore>>

NtfsFailures(volume) ==
    {NoFault}
        \cup {<<k, what>> : k \in 1 .. NumStreams(volume),
                            what \in {"ntfs_attr_sha1sum",
                                      "new_lookup_table_entry",
                                      "utf16_to_utf8", "inode_add_ads"}}

CaptureNtfs(volume, fail, ub) ==
    /\ ~wim.crashed
    /\ wim.calls < MaxCalls
    /\ fail = NoFault \/ wim.faults < MaxFaults
    /\ \E got \in {build_dentry_tree_ntfs(wim, volume, fail[1], fail[2], ub)} :
          /\ wim' = Called(got.w, got.ret, FALSE, fail)
          /\ cap' = [kind |-> "ntfs", ret |-> got.ret,
                     hashes |-> got.hashes, before |-> BlobHashes(wim)]
    /\ UNCHANGED <<varsRes, varsApply, varsPool, varsCreate, varsSd, varsMore>>

NextWim ==
    \/ \E tree \in SourceTrees, boot \in BOOLEAN :
          \E fail \in AddFailures(tree), ub \in Outcomes(wim) :
             AddImage(tree, boot, fail, ub)
    \/ \E image \in WIM_ALL_IMAGES .. MaxImages, ub \in Outcomes(wim) :
          DeleteImage(image, ub)
    \/ \E volume \in NtfsVolumes :
          \E fail \in NtfsFailures(volume), ub \in Dangling :
             CaptureNtfs(volume, fail, ub)

InitWim ==
    /\ wim = WimEmpty
    /\ cap = NoCapture
    /\ ResUnused
    /\ ApplyUnused
    /\ PoolUnused
    /\ CreateUnused
    /\ SdUnused
    /\ MoreUnused

SpecWim == InitWim /\ [][NextWim]_vars

\* Images are added from POSIX directories, exported from the source
\* archives and deleted.
NextExport ==
    \/ \E tree \in SourceTrees, boot \in BOOLEAN :
          \E fail \in {NoFault, <<0, "xml_add_image">>} :
             AddImage(tree, boot, fail, "kept")
    \/ \E image \in WIM_ALL_IMAGES .. MaxImages, ub \in Outcomes(wim) :
          DeleteImage(image, ub)
    \/ \E src \in SourceWims, src_image \in WIM_ALL_IMAGES .. MaxImages,
          boot \in BOOLEAN :
          \E fail \in ExportFailures, ub \in Outcomes(wim) :
             ExportImage(src, src_image, boot, fail, ub)

SpecExport == InitWim /\ [][NextExport]_vars



(***************************************************************************)
(* Properties of the archive.                                              *)
(***************************************************************************)
RECURSIVE CountIn(_, _)
CountIn(refs, hash) ==
    IF refs = <<>> THEN 0
    ELSE (IF refs[1] = hash THEN 1 ELSE 0) + CountIn(Tail(refs), hash)

\* The nondirectory dentries of the images retained that have the hash.
RECURSIVE StreamRefs(_, _)
StreamRefs(imds, hash) ==
    IF imds = <<>> THEN 0
    ELSE CountIn(imds[1].refs, hash) + StreamRefs(Tail(imds), hash)

\* The positions of the table that hold entries of file contents, not of
\* metadata resources.
BlobPositions(w) == {k \in DOMAIN w.table : ~w.heap[w.table[k]].metadata}

\* C1: after any sequence of wimlib_add_image and wimlib_delete_image calls
\* that all returned 0, the refcnt of every entry of a file content is the
\* number of nondirectory dentries of that hash in the images retained; no
\* entry in the table has refcnt 0, and every such dentry has its entry.
C1_RefcntCountsRefs ==
    wim.clean =>
        /\ \A k \in BlobPositions(wim) :
              /\ wim.heap[wim.table[k]].refcnt
                     = StreamRefs(wim.image_metadata, wim.heap[wim.table[k]].hash)
              /\ wim.heap[wim.table[k]].refcnt >= 1
        /\ \A i \in DOMAIN wim.image_metadata :
              Range(wim.image_metadata[i].refs) \subseteq BlobHashes(wim)

\* Images were added and one of them deleted: one image is retained, and
\* the one entry left has the refcnt 2 of the two dentries of that image.
C1_Witness ==
    /\ wim.clean
    /\ wim.calls >= 3
    /\ cap.kind = "none"
    /\ Len(wim.image_metadata) = 1
    /\ Cardinality(BlobPositions(wim)) = 1
    /\ \E k \in BlobPositions(wim) : wim.heap[wim.table[k]].refcnt = 2

\* C2: after a capture that returned 0, from a POSIX directory or from an
\* NTFS volume, the table holds exactly one entry for each distinct content
\* hash: no two entries share a hash, and the entries of file contents are
\* those the table held before and those of the contents captured.
C2_OneEntryPerContent ==
    cap.kind # "none" /\ cap.ret = SUCCESS =>
        /\ \A i, j \in DOMAIN wim.table :
              i # j => wim.heap[wim.table[i]].hash # wim.heap[wim.table[j]].hash
        /\ BlobHashes(wim) = cap.before \cup Range(cap.hashes)
        /\ Cardinality(BlobPositions(wim))
               = Cardinality(cap.before \cup Range(cap.hashes))

\* The entries that the table links although free_lookup_table_entry() was
\* called on them.
FreedWhileLinked(w) ==
    {k \in DOMAIN w.table : w.heap[w.table[k]].mem = "freed"}

\* C32: after capture_ntfs_streams() has met a second unnamed data stream on
\* an inode, or has failed after an entry was found or made for the stream in
\* hand, the table is consistent: no entry that the table links has been
\* freed.
C32_NoLinkedEntryFreed ==
    cap.kind = "ntfs" => FreedWhileLinked(wim) = {}

\* A step that is a wimlib_add_image() that returned an error, made on an
\* archive whose calls so far all returned 0.
FailedAddStep ==
    /\ wim.clean
    /\ wim'.calls = wim.calls + 1
    /\ cap'.kind = "posix"
    /\ cap'.ret \notin {SUCCESS, CRASH}

\* C33: a wimlib_add_image() that fails leaves the archive as it was before
\* the call: the table links the same entries with the same refcnts, and the
\* images are those there were.
C33_FailedAddUndone ==
    [][FailedAddStep =>
          /\ wim'.table = wim.table
          /\ \A k \in DOMAIN wim.table :
                wim'.heap[wim.table[k]] = wim.heap[wim.table[k]]
          /\ wim'.image_metadata = wim.image_metadata]_vars

(***************************************************************************)
(* Further properties of the resource reader.                              *)
(***************************************************************************)
\* The chunk the last read began in.
StartChunk == rd.offset \div WIM_CHUNK_SIZE

\* The chunks the last read processed.
ChunksRead == {rd.chunks[k] : k \in DOMAIN rd.chunks}

\* C11: in a read of an LZX or XPRESS resource, a chunk whose derived
\* compressed size equals its expected uncompressed size is copied without
\* any read into the codec's buffer and without a call of the codec; every
\* other chunk is read into that buffer and, when the read gave all of it,
\* handed to the codec with the expected uncompressed size.
C11_RawChunksSkipCodec ==
    (rd.op \in {"read", "read_full"} /\ res.ctype # "NONE")
        => \A i \in ChunksRead :
              IF derived_chunk_size(res, StartChunk, i)
                     = ChunkUsize(res.original_size, i)
              THEN /\ \A k \in DOMAIN rd.codec : rd.codec[k][1] # i
                   /\ \A k \in DOMAIN rd.bufreads : rd.bufreads[k][1] # i
              ELSE /\ \E k \in DOMAIN rd.bufreads :
                         /\ rd.bufreads[k][1] = i
                         /\ ToUnsigned(rd.bufreads[k][3]) = rd.bufreads[k][2]
                               => \E c \in DOMAIN rd.codec :
                                     /\ rd.codec[c][1] = i
                                     /\ rd.codec[c][2] = rd.bufreads[k][2]
                                     /\ rd.codec[c][3]
                                            = ChunkUsize(res.original_size, i)
                   /\ \A c \in DOMAIN rd.codec :
                         rd.codec[c][1] = i
                            => rd.codec[c][3] = ChunkUsize(res.original_size, i)

\* A successful read of an XPRESS resource that copied its last chunk, a
\* residue stored raw, and handed the chunk before it to the codec.
C11_Witness ==
    /\ rd.op = "read_full" /\ res.ctype = "XPRESS" /\ rd.ret = SUCCESS
    /\ Len(rd.chunks) >= 2
    /\ res.original_size % WIM_CHUNK_SIZE # 0
    /\ StoredRaw(res, rd.chunks[Len(rd.chunks)])
    /\ \A k \in DOMAIN rd.codec : rd.codec[k][1] # rd.chunks[Len(rd.chunks)]
    /\ \E k \in DOMAIN rd.codec : rd.codec[k][1] = rd.chunks[Len(rd.chunks)] - 1

\* The least number of chunks of WIM_CHUNK_SIZE bytes that hold usize bytes.
CeilChunks(usize) ==
    CHOOSE n \in 1 .. MaxChunks + 2 :
        n * WIM_CHUNK_SIZE >= usize /\ (n - 1) * WIM_CHUNK_SIZE < usize

\* What is left for the last chunk of a resource of usize bytes.
LastChunkSize(usize) ==
    IF usize % WIM_CHUNK_SIZE = 0 THEN WIM_CHUNK_SIZE ELSE usize % WIM_CHUNK_SIZE

\* C12: a full read of a compressed resource of uncompressed size U > 0
\* (below 2^32), once the seek to its chunk table has succeeded, reads
\* ceil(U/32768) - 1 chunk-table entries, processes no
\* chunk beyond index ceil(U/32768) - 1 and, when it succeeds, all of them in
\* order, giving U bytes; the last chunk is expected to expand to U mod 32768
\* bytes, or to 32768 when that is 0.  U = 32768: one chunk, no table entry;
\* U = 32769: two chunks, one entry, a last chunk of 1 byte.
C12_ChunkArithmetic ==
    (rd.op = "read_full" /\ res.ctype # "NONE" /\ res.seek_fail # 1)
        => /\ rd.tabread = <<0, 4 * (CeilChunks(res.original_size) - 1)>>
           /\ ChunksRead \subseteq 0 .. CeilChunks(res.original_size) - 1
           /\ (rd.ret = SUCCESS /\ ~rd.overflow)
                 => /\ rd.chunks = [k \in 1 .. CeilChunks(res.original_size) |-> k - 1]
                    /\ DataLen(rd.out) = res.original_size
           /\ \A c \in DOMAIN rd.codec :
                 rd.codec[c][3] = IF rd.codec[c][1] = CeilChunks(res.original_size) - 1
                                  THEN LastChunkSize(res.original_size)
                                  ELSE WIM_CHUNK_SIZE
           /\ res.original_size = WIM_CHUNK_SIZE
                 => rd.tabread[2] = 0 /\ ChunksRead \subseteq {0}
           /\ res.original_size = WIM_CHUNK_SIZE + 1
                 => /\ rd.tabread[2] = 4
                    /\ ChunksRead \subseteq {0, 1}
                    /\ \A c \in DOMAIN rd.codec :
                          rd.codec[c][1] = 1 => rd.codec[c][3] = 1

\* A successful full read of a resource of 32769 bytes: one table entry and
\* two chunks were read, the second of 1 byte.
C12_Witness ==
    /\ rd.op = "read_full" /\ res.ctype # "NONE" /\ rd.ret = SUCCESS
    /\ res.original_size = WIM_CHUNK_SIZE + 1
    /\ rd.tabread = <<0, 4>>
    /\ rd.chunks = <<0, 1>>
    /\ DataLen(rd.out) = WIM_CHUNK_SIZE + 1

\* The failures a read met: a seek that failed, an fread() that gave fewer
\* bytes than asked for, a chunk the codec rejected.
SeekFailed == res.seek_fail > 0 /\ rd.seeks >= res.seek_fail

ShortRead ==
    \/ \E k \in DOMAIN rd.bufreads : ToUnsigned(rd.bufreads[k][3]) # rd.bufreads[k][2]
    \/ res.ctype = "NONE" /\ rd.len > 0 /\ ~SeekFailed
           /\ Fread(res, rd.offset, rd.len) # rd.len

CodecRejected == \E c \in DOMAIN rd.codec : ~rd.codec[c][4]

\* C14: a read whose seek failed or whose fread() came back short returns the
\* read error, one whose codec rejected a chunk the decompression error, and
\* a read of a whole resource whose bytes do not hash to the entry's hash the
\* invalid-resource-hash error; the three codes differ, and no read or
\* extraction returns success with fewer bytes than asked for.
C14_FailuresSurface ==
    /\ Cardinality({WIMLIB_ERR_READ, WIMLIB_ERR_DECOMPRESSION,
                     WIMLIB_ERR_INVALID_RESOURCE_HASH, SUCCESS}) = 4
    /\ rd.op \in {"read", "read_full"}
          => /\ (SeekFailed \/ ShortRead) => rd.ret = WIMLIB_ERR_READ
             /\ CodecRejected => rd.ret = WIMLIB_ERR_DECOMPRESSION
             /\ rd.ret = SUCCESS => DataLen(rd.out) = rd.len
    /\ (rd.op = "read_full" /\ DataLen(rd.out) = rd.len
           /\ sha1_buffer(rd.out) # res.hash)
          => rd.ret = WIMLIB_ERR_INVALID_RESOURCE_HASH
    /\ rd.op = "extract"
          => /\ (res.seek_fail = 1 /\ rd.len > 0) => rd.ret = WIMLIB_ERR_READ
             /\ rd.ret = SUCCESS
                   => DeliveredTo(rd.delivered, Len(rd.delivered)) = rd.len
             /\ (rd.len = wim_resource_size(res)
                    /\ DeliveredTo(rd.delivered, Len(rd.delivered)) = rd.len
                    /\ rd.fail_at \notin 1 .. Len(rd.delivered)
                    /\ sha1_buffer(rd.ctx) # res.hash)
                   => rd.ret = WIMLIB_ERR_INVALID_RESOURCE_HASH

(***************************************************************************)
(* The chunk table of resources of any size up to and beyond 2^32 bytes:   *)
(* the part of read_compressed_resource() that reads the table and seeks   *)
(* to the first chunk needed.  Sizes that 32 bits do not hold are kept in  *)
(* parts:                                                                  *)
(*   the uncompressed size is q * WIM_CHUNK_SIZE + r with r below          *)
(*   WIM_CHUNK_SIZE;                                                       *)
(*   a u64 read from or written to the table is <<l0, l1, l2, l3>>, its    *)
(*   four 16-bit limbs, the lowest first.                                  *)
(* Here res is                                                             *)
(*   q, r      the uncompressed size                                       *)
(*   stride    the stored size of each chunk but the last                  *)
(*   written   the size of the entries the file's table was written with   *)
(* and rd is what the last ReadChunkTable() computed.                      *)
(***************************************************************************)
\* 2^32 bytes in chunks.
Chunks4G == (65536 \div WIM_CHUNK_SIZE) * 65536

\* k * stride as a u64, for k below 2^32 and stride up to WIM_CHUNK_SIZE.
Offset64(k, stride) ==
    LET low == (k % 65536) * stride
        high == (k \div 65536) * stride + low \div 65536
    IN  <<low % 65536, high % 65536, high \div 65536, 0>>

\* Byte d of a u64, the lowest first.
ByteOf(v, d) ==
    IF d % 2 = 0 THEN v[d \div 2 + 1] % 256 ELSE v[d \div 2 + 1] \div 256

\* The byte the file holds at position p from resource_offset: the table
\* written with entries of res.written bytes (entry idx is the offset of
\* chunk idx + 1), and after it the data of the chunks.
FileByte(r, p) ==
    IF p < r.written * (r.q + (IF r.r > 0 THEN 1 ELSE 0) - 1)
    THEN ByteOf(Offset64(p \div r.written + 1, r.stride), p % r.written)
    ELSE (p * 7 + 3) % 251

\* chunk_entry_size that is 4 whatever the size of the resource.
chunk_entry_size_4(r) == 4

\* u64 chunk_entry_size
chunk_entry_size(r) == IF r.q >= Chunks4G THEN 8 ELSE 4

\* u64 num_chunks: (q * WIM_CHUNK_SIZE + r + WIM_CHUNK_SIZE - 1) / WIM_CHUNK_SIZE
num_chunks(r) == r.q + (r.r + WIM_CHUNK_SIZE - 1) \div WIM_CHUNK_SIZE

\* u64 chunk_table_size
chunk_table_size(r) == chunk_entry_size(r) * (num_chunks(r) - 1)

\* le32_to_cpu(entries[j]) for u32 *entries = chunk_tab_buf, the buffer
\* having been read at file position at.
le32_to_cpu(r, at, j) ==
    <<FileByte(r, at + 4 * j) + 256 * FileByte(r, at + 4 * j + 1),
      FileByte(r, at + 4 * j + 2) + 256 * FileByte(r, at + 4 * j + 3), 0, 0>>

\* le64_to_cpu(entries[j]) for u64 *entries = chunk_tab_buf.
le64_to_cpu(r, at, j) ==
    [l \in 1 .. 4 |-> FileByte(r, at + 8 * j + 2 * (l - 1))
                      + 256 * FileByte(r, at + 8 * j + 2 * (l - 1) + 1)]

\* read_compressed_resource() for a read of the chunks start_chunk ..
\* end_chunk, up to the seek to the first of them.
read_chunk_table(r, start_chunk, end_chunk) ==
    LET num_needed_chunks == (end_chunk - start_chunk + 1)
                               + (IF end_chunk # num_chunks(r) - 1 THEN 1 ELSE 0)
        start_table_idx == IF start_chunk = 0 THEN 0 ELSE start_chunk - 1
        num_needed_chunk_entries == IF start_chunk = 0 THEN num_needed_chunks - 1
                                    ELSE num_needed_chunks
        at == start_table_idx * chunk_entry_size(r)
        entries == [j \in 1 .. num_needed_chunk_entries |->
                       IF chunk_entry_size(r) = 4 THEN le32_to_cpu(r, at, j - 1)
                       ELSE le64_to_cpu(r, at, j - 1)]
        offsets == IF start_chunk = 0 THEN <<<<0, 0, 0, 0>>>> \o entries
                   ELSE entries
    IN  [op |-> "table", start_chunk |-> start_chunk, end_chunk |-> end_chunk,
         tabread |-> <<at, num_needed_chunk_entries * chunk_entry_size(r)>>,
         chunk_offsets |-> offsets,
         first_chunk |-> <<chunk_table_size(r), offsets[1]>>]

\* The sizes at and around 2^32 bytes and the small ones.
BigSizes ==
    {<<q, r>> : q \in (1 .. MaxChunks) \cup {Chunks4G - 1, Chunks4G, Chunks4G + 1},
                r \in {0, 1, WIM_CHUNK_SIZE - 1}}

BigResources ==
    {[q |-> s[1], r |-> s[2], stride |-> stride, written |-> written] :
        s \in BigSizes, stride \in {CompSize, WIM_CHUNK_SIZE}, written \in {4, 8}}

InitTable ==
    /\ res \in BigResources
    /\ rd = [op |-> "idle"]
    /\ ApplyUnused
    /\ WimUnused
    /\ PoolUnused
    /\ CreateUnused
    /\ SdUnused
    /\ MoreUnused

\* The chunks at the beginning and at the end of a resource.
ChunksNear(r) ==
    {c \in {0, 1, num_chunks(r) - 2, num_chunks(r) - 1} : c >= 0 /\ c < num_chunks(r)}

ReadChunkTable(start_chunk, end_chunk) ==
    /\ start_chunk <= end_chunk
    /\ end_chunk - start_chunk <= 1
    /\ rd' = read_chunk_table(res, start_chunk, end_chunk)
    /\ UNCHANGED <<res, varsApply, varsWim, varsPool, varsCreate, varsSd, varsMore>>

NextTable ==
    \E start_chunk \in ChunksNear(res), end_chunk \in ChunksNear(res) :
        ReadChunkTable(start_chunk, end_chunk)

SpecTable == InitTable /\ [][NextTable]_vars

\* The size of a chunk-table entry of a resource: 8 bytes from 2^32 bytes of
\* uncompressed size on, else 4.
EntryBytes(r) ==
    IF r.q * (WIM_CHUNK_SIZE \div 256) + r.r \div 256 >= 65536 * 256 THEN 8 ELSE 4

\* The table entries a read of the chunks from first to last needs: those of
\* the chunks read but chunk 0, and that of the chunk after them, if any.
EntriesNeeded(r, first, last) ==
    {c \in 1 .. r.q + 1 :
        c >= first /\ c <= last + 1 /\ c <= r.q + (IF r.r > 0 THEN 1 ELSE 0) - 1}

\* C13: the entries of the chunk table are read as 4-byte little-endian
\* integers when the uncompressed size is below 2^32 and as 8-byte ones from
\* 2^32 on: the bytes read are those of the entries needed, each value is
\* the little-endian number of its entry's bytes, and the first chunk is
\* sought behind a table of entry size times (number of chunks - 1) bytes.
\* A table written with entries of that size gives back the offsets written.
C13_EntrySize ==
    rd.op = "table"
        => /\ rd.tabread[2]
                 = EntryBytes(res)
                       * Cardinality(EntriesNeeded(res, rd.start_chunk, rd.end_chunk))
           /\ rd.tabread[1]
                 = EntryBytes(res)
                       * (IF rd.start_chunk = 0 THEN 0 ELSE rd.start_chunk - 1)
           /\ rd.first_chunk[1]
                 = EntryBytes(res) * (res.q + (IF res.r > 0 THEN 1 ELSE 0) - 1)
           /\ \A c \in EntriesNeeded(res, rd.start_chunk, rd.end_chunk) :
                 /\ \A d \in 0 .. 7 :
                       ByteOf(rd.chunk_offsets[c - rd.start_chunk + 1], d)
                           = IF d < EntryBytes(res)
                             THEN FileByte(res, EntryBytes(res) * (c - 1) + d)
                             ELSE 0
                 /\ res.written = EntryBytes(res)
                       => rd.chunk_offsets[c - rd.start_chunk + 1]
                              = Offset64(c, res.stride)
           /\ (res.q = Chunks4G - 1 /\ res.r = WIM_CHUNK_SIZE - 1)
                 => rd.tabread[2] % 4 = 0 /\ rd.tabread[2] <= 8
                       /\ rd.first_chunk[1] = 4 * (Chunks4G - 1)
           /\ (res.q = Chunks4G /\ res.r = 0)
                 => rd.tabread[2] % 8 = 0 /\ rd.first_chunk[1] = 8 * (Chunks4G - 1)

\* The last two chunks of a resource of more than 2^32 bytes were read, whose
\* table has 8-byte entries: the offset read for the last chunk is above 2^32.
C13_Witness ==
    /\ rd.op = "table"
    /\ res.q >= Chunks4G /\ res.written = 8
    /\ rd.end_chunk = rd.start_chunk + 1
    /\ rd.tabread[2] = 16
    /\ rd.chunk_offsets[2][3] > 0


(***************************************************************************)
(* Further properties of the apply back-end.                               *)
(***************************************************************************)
\* The targets of the current blob that are reparse points, in order.
ReparseTargets ==
    SelectSeq(drv.blob.targets, LAMBDA tg : tg.stream = "reparse")

\* The bytes that rpbuf.rpdata holds.
RECURSIVE Buffered(_, _)
Buffered(rpdata, k) ==
    IF k = 0 THEN 0 ELSE rpdata[k][2] + Buffered(rpdata, k - 1)

\* C17: a blob larger than REPARSE_DATA_MAX_SIZE with a reparse-point target
\* is rejected by begin_blob, with the invalid-reparse-data error when no
\* library call failed before, and no chunk of it is buffered; while a blob
\* is extracted to a reparse point the bytes buffered are those consumed and
\* never more than REPARSE_DATA_MAX_SIZE; after a successful end_blob
\* ntfs_set_ntfs_reparse_data() was called once for each reparse target, in
\* order, with the tag of that target's inode in front of the blob's bytes.
C17_ReparseBuffered ==
    /\ (drv.last.call = "begin" /\ ReparseTargets # <<>>
           /\ drv.blob.size > REPARSE_DATA_MAX_SIZE)
          => /\ drv.last.ret # SUCCESS
             /\ drv.last.fault = 0 => drv.last.ret = WIMLIB_ERR_INVALID_REPARSE_DATA
             /\ drv.state = "over" /\ drv.next = 0
             /\ ctx.reparse_ptr = NULL
             /\ ntfs.set_reparse = <<>>
    /\ (drv.state = "begun" /\ ReparseTargets # <<>>)
          => /\ ctx.reparse_ptr # NULL
             /\ ctx.reparse_ptr - 1 = Buffered(ctx.rpdata, Len(ctx.rpdata))
             /\ ctx.reparse_ptr - 1 <= drv.blob.size
             /\ ctx.reparse_ptr - 1 <= REPARSE_DATA_MAX_SIZE
    /\ (drv.last.call = "end" /\ drv.last.ret = SUCCESS)
          => /\ Len(ntfs.set_reparse) = Len(ReparseTargets)
             /\ \A k \in DOMAIN ntfs.set_reparse :
                   /\ ntfs.set_reparse[k][2] = ReparseTargets[k].inode
                   /\ ntfs.set_reparse[k][5] = i_reparse_tag(ReparseTargets[k].inode)
                   /\ ntfs.set_reparse[k][3]
                         = ChunkBytes(drv.blob.size, NumChunks(drv.blob.size))
                   /\ ntfs.set_reparse[k][4] = drv.blob.size

\* A blob was extracted to the reparse points of two inodes, and each was set
\* with its own tag.
C17_Witness ==
    /\ drv.last.call = "end" /\ drv.last.ret = SUCCESS
    /\ Len(ReparseTargets) = 2
    /\ Len(ntfs.set_reparse) = 2
    /\ ntfs.set_reparse[1][5] # ntfs.set_reparse[2][5]
    /\ ntfs.set_reparse[1][3] # <<>>

\* The inodes that the targets of the current blob belong to.
TargetInodesOf(blob) == {blob.targets[i].inode : i \in DOMAIN blob.targets}

\* C36: within one begin_blob each target inode is opened at most once,
\* however many of its streams the blob goes to: no inode is twice among
\* the open inodes, in the context or in the library, the open inodes are
\* no more than the distinct target inodes of the blob, and when begin_blob
\* has returned, with 0 or with an error, no inode is marked visited.
C36_InodeOpenedOnce ==
    /\ \A j, k \in DOMAIN ctx.open_inodes :
          j # k => ctx.open_inodes[j] # ctx.open_inodes[k]
    /\ \A j, k \in DOMAIN ntfs.live_inodes :
          j # k => ntfs.live_inodes[j] # ntfs.live_inodes[k]
    /\ Len(ctx.open_inodes) <= Cardinality(TargetInodesOf(drv.blob))
    /\ Len(ntfs.live_inodes) <= Cardinality(TargetInodesOf(drv.blob))
    /\ i_visited = {}

\* begin_blob returned 0 for a blob that goes to two streams of one inode:
\* the inode is open once, two attributes are open, and its mark is cleared.
C36_Witness ==
    /\ drv.last.call = "begin" /\ drv.last.ret = SUCCESS
    /\ Len(drv.blob.targets) = 2
    /\ Cardinality(TargetInodesOf(drv.blob)) = 1
    /\ ctx.open_inodes = <<1>>
    /\ Len(ctx.open_attrs) = 2
    /\ i_visited = {}

(***************************************************************************)
(* Threads reading the archive at once through the pool of file handles.   *)
(***************************************************************************)
InitPool ==
    /\ fps = PoolEmpty
    /\ readers = [t \in Readers |-> ReaderIdle]
    /\ CreateUnused
    /\ SdUnused
    /\ ResUnused
    /\ ApplyUnused
    /\ WimUnused
    /\ MoreUnused

NextPool ==
    \E t \in Readers :
        \/ CallRead(t)
        \/ GetLock(t)
        \/ GetScan(t)
        \/ \E ok \in BOOLEAN : GetOpen(t, ok)
        \/ GetOut(t)
        \/ \E ret \in {SUCCESS, WIMLIB_ERR_READ} : ReadWith(t, ret)
        \/ RelLock(t)
        \/ \E ok \in BOOLEAN : RelScan(t, ok)
        \/ RelOut(t)

SpecPool == InitPool /\ [][NextPool]_vars

\* The threads whose call of read_wim_resource() has a handle of its own:
\* from the return of wim_get_fp() with a handle until wim_release_fp() has
\* put it into the table or given it up.
HoldsHandle(t) ==
    \/ readers[t].pc \in {"reading", "rel_lock", "rel_scan"}
    \/ readers[t].pc = "get_out" /\ readers[t].fp # NULL

InPool(fp) == \E i \in DOMAIN fps.fp_tab : fps.fp_tab[i] = fp

\* C15: of the threads that read the archive at once, no two hold the same
\* file handle, a handle that a thread holds is in no slot of the pool, and
\* no handle is in two slots.
C15_HandlesExclusive ==
    /\ \A t \in Readers : HoldsHandle(t) => readers[t].fp # NULL
    /\ \A t, u \in Readers :
          (t # u /\ HoldsHandle(t) /\ HoldsHandle(u))
              => readers[t].fp # readers[u].fp
    /\ \A t \in Readers : HoldsHandle(t) => ~InPool(readers[t].fp)
    /\ \A i, j \in DOMAIN fps.fp_tab :
          (i # j /\ fps.fp_tab[i] # NULL) => fps.fp_tab[i] # fps.fp_tab[j]

\* All threads are reading, each with a handle of its own, at least one of
\* which had been released to the pool and was taken from it again.
C15_Witness ==
    /\ \A t \in Readers : readers[t].pc = "reading"
    /\ \A t, u \in Readers : t # u => readers[t].fp # readers[u].fp
    /\ fps.fp_tab # <<>>
    /\ \A i \in DOMAIN fps.fp_tab : fps.fp_tab[i] = NULL

\* C16: no thread opens the archive file while it holds the mutex of the
\* pool.
C16_NoIoUnderMutex ==
    \A t \in Readers : readers[t].pc = "get_open" => fps.mutex # t

\* The threads whose call has a handle that is not in the pool: those that
\* hold one, and those whose wim_release_fp() could not put it into the table
\* and has not returned yet.
InUse(t) ==
    \/ HoldsHandle(t)
    \/ readers[t].pc = "rel_out" /\ readers[t].ret2 # SUCCESS

\* C34: every handle that read_wim_resource() got for a multithreaded read
\* is back in the pool when the call returns: the handles in the slots of
\* the pool and those in use by the calls that run are the handles opened.
\* A call whose read failed returns the error of the read, whatever the
\* release returned.
C34_HandlesGivenBack ==
    /\ Cardinality({i \in DOMAIN fps.fp_tab : fps.fp_tab[i] # NULL})
           + Cardinality({t \in Readers : InUse(t)}) = fps.opened
    /\ \A t \in Readers :
          (readers[t].pc = "rel_out" /\ readers[t].ret # SUCCESS)
              => readers[t].ret = WIMLIB_ERR_READ


(***************************************************************************)
(* The extraction of an image: the file-structure phase, then the          *)
(* begin_blob of each blob.                                                *)
(***************************************************************************)
InitCreate ==
    /\ img \in Images
    /\ vol = [VolIdle EXCEPT !.mft = [n \in DOMAIN img.inodes |-> NULL]]
    /\ ResUnused
    /\ ApplyUnused
    /\ WimUnused
    /\ PoolUnused
    /\ SdUnused
    /\ MoreUnused

\* One step of ntfs_3g_extract(): from position from to position to when it
\* gives 0, else to out_unmount.
CreateStep(from, to, done) ==
    /\ vol.pc = from
    /\ vol' = [done EXCEPT !.pc = IF done.ret = SUCCESS THEN to ELSE "out_unmount",
                           !.calls = 0]
    /\ UNCHANGED <<img, varsRes, varsApply, varsWim, varsPool, varsSd, varsMore>>

\* ret = ntfs_3g_create_directories(root, dentry_list, ctx)
CreateDirs(fail_at) ==
    \E done \in {create_directories(vol, img, fail_at)} :
        /\ fail_at <= done.calls
        /\ CreateStep("structure", "dirs", done)

\* ret = ntfs_3g_create_nondirectories(dentry_list, ctx)
CreateNondirs(fail_at) ==
    \E done \in {create_nondirectories(vol, img, DentryList(img), fail_at)} :
        /\ fail_at <= done.calls
        /\ CreateStep("dirs", "blobs", done)

\* extract_blob_list() calls begin_blob for the next blob of the image.
BeginNextBlob(fail_at) ==
    /\ vol.begun + 1 \in BlobsOf(img)
    /\ \E done \in {begin_data_streams(vol, img, BlobTargets(img, vol.begun + 1),
                                       fail_at)} :
          /\ fail_at <= done.calls
          /\ CreateStep("blobs", "blobs", [done EXCEPT !.begun = @ + 1])

\* extract_blob_list() returns after the last blob.
BlobsDone ==
    /\ vol.begun + 1 \notin BlobsOf(img)
    /\ CreateStep("blobs", "out_unmount", vol)

MaxCreateCalls == 40

NextCreate ==
    \/ \E fail_at \in 0 .. MaxCreateCalls : CreateDirs(fail_at)
    \/ \E fail_at \in 0 .. MaxCreateCalls : CreateNondirs(fail_at)
    \/ \E fail_at \in 0 .. MaxCreateCalls : BeginNextBlob(fail_at)
    \/ BlobsDone

SpecCreate == InitCreate /\ [][NextCreate]_vars


\* The positions of the log at which ntfs_attr_add() created stream s of
\* inode n.
StreamAdds(n, s) ==
    {k \in DOMAIN vol.log :
        /\ vol.log[k][1] = "ntfs_attr_add"
        /\ vol.log[k][2] = n /\ vol.log[k][3] = s}

\* C18: no named data stream of an extracted inode is created twice, one
\* with a blob is never created in the file-structure phase and one without
\* never in the blob phase; after an extraction in which nothing failed each
\* was created exactly once.
C18_NamedStreamsOnce ==
    \A n \in DOMAIN img.inodes :
        \A s \in DOMAIN img.inodes[n].streams :
            (Aliases(img, n) # <<>> /\ img.inodes[n].streams[s].named)
                => /\ Cardinality(StreamAdds(n, s)) <= 1
                   /\ \A k \in StreamAdds(n, s) :
                         vol.log[k][4] = IF img.inodes[n].streams[s].blob = NULL
                                         THEN "structure" ELSE "blobs"
                   /\ (vol.pc = "out_unmount" /\ vol.ret = SUCCESS)
                         => Cardinality(StreamAdds(n, s)) = 1


\* The positions of the log at which an inode was created, and those at
\* which a directory was.
Creates == {k \in DOMAIN vol.log : vol.log[k][1] = "ntfs_create"}

DirCreates == {k \in Creates : vol.log[k][5] = "S_IFDIR"}

\* The directories below dentry dir that are extracted, parent first, over
\* the children kids of dir that are left.
RECURSIVE PreorderDirs(_, _)
PreorderDirs(im, kids) ==
    IF kids = <<>> THEN <<>>
    ELSE IF im.dentries[Head(kids)].dir /\ im.dentries[Head(kids)].extract
    THEN <<Head(kids)>> \o PreorderDirs(im, Children(im, Head(kids)))
                        \o PreorderDirs(im, Tail(kids))
    ELSE PreorderDirs(im, Tail(kids))

\* The dentries of the directories created, in the order of their creation.
DirsCreated ==
    [j \in 1 .. Cardinality(DirCreates) |->
        vol.log[CHOOSE k \in DirCreates :
                   Cardinality({l \in DirCreates : l < k}) = j - 1][4]]

\* Whether the library call ev for the inode mft_no is in the log after
\* position k and before position end.
SetBetween(ev, mft_no, k, end) ==
    \E a \in DOMAIN vol.log : k < a /\ a < end /\ vol.log[a] = <<ev, mft_no>>

\* The position of the creation that follows the one at k, or the end of the
\* log.
CreateAfter(k) ==
    IF \E l \in Creates : l > k
    THEN CHOOSE l \in Creates : l > k /\ \A x \in Creates : x > k => l <= x
    ELSE Len(vol.log) + 1

FileInodes ==
    {n \in DOMAIN img.inodes :
        /\ Aliases(img, n) # <<>>
        /\ ~img.dentries[Aliases(img, n)[1]].dir}

\* The positions of the log at which a file was created for inode n, at
\* which a link to it was added, and at which a short name was set on it.
FileCreates(n) ==
    {k \in DOMAIN vol.log :
        /\ vol.log[k][1] = "ntfs_create"
        /\ vol.log[k][5] = "S_IFREG"
        /\ img.dentries[vol.log[k][4]].inode = n}

LinksAdded(n) ==
    {k \in DOMAIN vol.log :
        /\ vol.log[k][1] = "ntfs_link"
        /\ img.dentries[vol.log[k][4]].inode = n}

ShortNamesSet(n) ==
    {k \in DOMAIN vol.log :
        /\ vol.log[k][1] = "ntfs_set_ntfs_dos_name"
        /\ ~img.dentries[vol.log[k][4]].dir
        /\ img.dentries[vol.log[k][4]].inode = n}

\* The aliases of inode n that have a short name.
ShortAliases(n) ==
    {d \in Range(Aliases(img, n)) : img.dentries[d].short}

\* The nondirectories have all been created, nothing having failed.
FilesCreated ==
    vol.pc = "blobs" \/ (vol.pc = "out_unmount" /\ vol.ret = SUCCESS)

\* C30: for a nondirectory inode with k extraction aliases there is never
\* more than one file creation, and never more than one link addition for
\* each of the other k - 1 aliases; every link is added, after the
\* creation, to the inode that was created; once the nondirectories have
\* been created without a failure there are exactly one creation and k - 1
\* link additions.  When an alias has a short name the file is created
\* under the name of such an alias, the first of them, and the short name
\* of that alias is then set on the inode created; without one, no short
\* name is set.
C30_OneFileManyLinks ==
    \A n \in FileInodes :
        /\ Cardinality(FileCreates(n)) <= 1
        /\ \A k \in LinksAdded(n) :
              /\ \E c \in FileCreates(n) :
                    /\ c < k
                    /\ vol.log[k][2] = vol.log[c][2]
                    /\ vol.log[k][4] # vol.log[c][4]
              /\ \A j \in LinksAdded(n) : vol.log[j][4] = vol.log[k][4] => j = k
        /\ Cardinality(LinksAdded(n)) <= Len(Aliases(img, n)) - 1
        /\ FilesCreated
              => /\ Cardinality(FileCreates(n)) = 1
                 /\ Cardinality(LinksAdded(n)) = Len(Aliases(img, n)) - 1
                 /\ vol.mft[n] # NULL
                 /\ \A c \in FileCreates(n) : vol.log[c][2] = vol.mft[n]
        /\ \A c \in FileCreates(n) :
              /\ ShortAliases(n) # {}
                    => /\ vol.log[c][4] \in ShortAliases(n)
                       /\ \A d \in ShortAliases(n) :
                             \A a, b \in DOMAIN Aliases(img, n) :
                                 (Aliases(img, n)[a] = vol.log[c][4]
                                     /\ Aliases(img, n)[b] = d) => a <= b
                       /\ FilesCreated
                             => \E s \in ShortNamesSet(n) :
                                   /\ s > c
                                   /\ vol.log[s][2] = vol.log[c][2]
                                   /\ vol.log[s][4] = vol.log[c][4]
              /\ \A s \in ShortNamesSet(n) :
                    s > c /\ vol.log[s][4] = vol.log[c][4]
        /\ ShortAliases(n) = {} => ShortNamesSet(n) = {}

\* The nondirectories of an image have been created without a failure: a
\* file of two names, one of them with a short name, was created under the
\* name that has the short name, the short name was set and one link added.
C30_Witness ==
    /\ FilesCreated
    /\ \E n \in FileInodes :
          /\ Len(Aliases(img, n)) = 2
          /\ ShortAliases(n) # {}
          /\ Cardinality(LinksAdded(n)) = 1
          /\ Cardinality(ShortNamesSet(n)) = 1
          /\ \A c \in FileCreates(n) : img.dentries[vol.log[c][4]].short


(***************************************************************************)
(* sd_fixup() on the descriptors tried.                                    *)
(***************************************************************************)
InitSd ==
    /\ sd \in {[SdIdle EXCEPT !.desc = d] : d \in Descriptors}
    /\ ResUnused
    /\ ApplyUnused
    /\ WimUnused
    /\ PoolUnused
    /\ CreateUnused
    /\ MoreUnused

\* desc_fixed = sd_fixup(desc, &desc_size)
SdFixup(old_lib, malloc_ok) ==
    /\ ~sd.called
    /\ \E got \in {sd_fixup(sd.desc, old_lib, malloc_ok)} :
          sd' = [sd EXCEPT !.called = TRUE, !.old_lib = old_lib,
                           !.malloc_ok = malloc_ok, !.out = got.out,
                           !.size = got.size, !.fresh = got.fresh]
    /\ UNCHANGED <<varsRes, varsApply, varsWim, varsPool, varsCreate, varsMore>>

NextSd == \E old_lib \in BOOLEAN, malloc_ok \in BOOLEAN : SdFixup(old_lib, malloc_ok)

SpecSd == InitSd /\ [][NextSd]_vars


\* The value of the four bytes of d from offset o on, the first byte the
\* lowest.
Value32(d, o) ==
    d[o + 1] + 256 * (d[o + 2] + 256 * (d[o + 3] + 256 * d[o + 4]))

\* Whether the header of the descriptor given says that an ACL of the kind of
\* the control bit (the bit'th bit) begins SizeofAcl bytes before the end,
\* field being the offset of its offset.
EndsWithAcl(bit, field) ==
    /\ (sd.desc[ControlField + 1] \div bit) % 2 = 1
    /\ Value32(sd.desc, field) = Len(sd.desc) - SizeofAcl
    /\ Value32(sd.desc, field) # 0

\* Whether the offset o is that of a SID that can be moved: after the
\* header, aligned to four bytes, and with all its bytes and at least
\* SizeofSid bytes in the descriptor.
Movable(o) ==
    /\ o >= SizeofDescriptor
    /\ o % 4 = 0
    /\ o + SizeofSid <= Len(sd.desc)
    /\ o + OffsetofSubAuthority + 4 * sd.desc[o + 2] <= Len(sd.desc)

\* Whether sd_fixup() is to leave the descriptor as it is, going by the
\* descriptor alone.
LeftAlone ==
    \/ Len(sd.desc) < SizeofDescriptor
    \/ ~(EndsWithAcl(wimlib_SE_DACL_PRESENT, DaclField)
           \/ (sd.old_lib /\ EndsWithAcl(wimlib_SE_SACL_PRESENT, SaclField)))
    \/ (~Movable(Value32(sd.desc, OwnerField))
           /\ ~Movable(Value32(sd.desc, GroupField)))

\* The offset field of the SID that is moved.
MovedField ==
    IF Movable(Value32(sd.desc, OwnerField)) THEN OwnerField ELSE GroupField

\* Whether what sd_fixup() returned is the descriptor given, unchanged.
Unchanged == sd.out = sd.desc /\ sd.size = Len(sd.desc) /\ ~sd.fresh

\* Whether what sd_fixup() returned is a copy of the descriptor given with
\* the SID of the offset field moved to the end.
MovedToEnd(field) ==
    LET o == Value32(sd.desc, field)
        k == OffsetofSubAuthority + 4 * sd.desc[o + 2]
    IN  /\ sd.fresh
        /\ sd.size = Len(sd.desc) + k
        /\ Len(sd.out) = sd.size
        /\ \A i \in 1 .. Len(sd.desc) :
              (i <= field \/ i > field + 4) => sd.out[i] = sd.desc[i]
        /\ Value32(sd.out, field) = Len(sd.desc)
        /\ \A j \in 1 .. k : sd.out[Len(sd.desc) + j] = sd.desc[o + j]

\* C20 as stated: sd_fixup() returns the descriptor unchanged when it is
\* shorter than the header, does not end with an empty DACL (or, with an old
\* library, an empty SACL) or has neither a valid owner SID nor a valid group
\* SID, and otherwise a copy with the owner SID (the group SID when the
\* owner is not valid) moved to the end.
C20_FixupAsStated ==
    sd.called => IF LeftAlone THEN Unchanged ELSE MovedToEnd(MovedField)

\* C20: as above, but the descriptor is also returned unchanged when no
\* memory is available for the copy.
C20_FixupResult ==
    sd.called => IF LeftAlone \/ ~sd.malloc_ok THEN Unchanged
                 ELSE MovedToEnd(MovedField)

\* A descriptor that ends with an empty DACL and whose owner offset is not
\* that of a valid SID was fixed by moving its group SID.
C20_Witness ==
    /\ sd.called /\ sd.fresh
    /\ Value32(sd.out, GroupField) = Len(sd.desc)
    /\ Value32(sd.out, OwnerField) = Value32(sd.desc, OwnerField)
    /\ sd.size > Len(sd.desc)


\* sd_fixup() applied to what the call returned, by the same build, with
\* memory for the copy or without.
FixedAgain(malloc_ok) == sd_fixup(sd.out, sd.old_lib, malloc_ok)

\* The ACL offsets that sd_fixup() reads lie inside the descriptor it was
\* given: each is at most the size less the size of an ACL.
AclsInside ==
    LET control == le16_to_cpu_at(sd.desc, ControlField)
        dacl_offset == IF BitSet(control, wimlib_SE_DACL_PRESENT)
                       THEN le32_to_cpu_at(sd.desc, DaclField) ELSE 0
        sacl_offset == IF BitSet(control, wimlib_SE_SACL_PRESENT)
                       THEN le32_to_cpu_at(sd.desc, SaclField) ELSE 0
    IN  /\ dacl_offset <= Len(sd.desc) - SizeofAcl
        /\ sacl_offset <= Len(sd.desc) - SizeofAcl

\* C38 as stated: sd_fixup() applied to a descriptor that it has fixed
\* returns that descriptor unchanged.
C38_FixupIdempotent_Original ==
    sd.called /\ sd.fresh =>
        \A malloc_ok \in BOOLEAN : FixedAgain(malloc_ok) = Unfixed(sd.out)

\* C38: sd_fixup() applied to a descriptor that it has fixed returns that
\* descriptor unchanged when the build tests the DACL only (a library with
\* NTFS_MNT_RDONLY) or when the ACL offsets of the descriptor first given lie
\* inside it, for then no ACL offset equals the new size less the size of an
\* ACL.
C38_FixupIdempotent ==
    sd.called /\ sd.fresh /\ (~sd.old_lib \/ AclsInside) =>
        \A malloc_ok \in BOOLEAN : FixedAgain(malloc_ok) = Unfixed(sd.out)

\* A descriptor with its ACL offsets inside it was fixed by a build that
\* tests the SACL too, and its owner SID, now at the end, is still valid.
C38_Witness ==
    /\ sd.called /\ sd.fresh /\ sd.old_lib /\ AclsInside
    /\ Value32(sd.out, OwnerField) = Len(sd.desc)
    /\ SidValid(sd.out, Len(sd.desc))
    /\ FixedAgain(TRUE) = Unfixed(sd.out)


(***************************************************************************)
(* Further properties of the archive.                                      *)
(***************************************************************************)
\* C22: content of no bytes gets no lookup table entry: whatever was
\* captured, from a POSIX directory or from an NTFS volume, the table holds
\* no entry of the hash of the empty content.
C22_EmptyContentNoBlob == sha1sum(0) \notin BlobHashes(wim)


(***************************************************************************)
(* The chunks and the part of the chunk table that a read touches.         *)
(***************************************************************************)
\* The chunk that holds the last byte of the last read.
EndChunk == (rd.offset + rd.len - 1) \div WIM_CHUNK_SIZE

\* The chunks whose offsets the last read loaded from the chunk table: the
\* entry at byte 4 * (c - 1) of the table is the offset of chunk c.
ChunksOfSlice ==
    { rd.tabread[1] \div 4 + j : j \in 1 .. rd.tabread[2] \div 4 }

\* C29: a read of len > 0 bytes at offset of a compressed resource, once
\* it has found the chunk table, loads one slice of the table: the entries
\* of the chunks offset/32768 .. (offset+len-1)/32768 and of the chunk after
\* them if there is one, without chunk 0, which has no entry, and so nothing
\* outside the table; it then processes the chunks offset/32768 ..
\* (offset+len-1)/32768 one after the other, each once and no other, up to
\* the first that fails, and all of them when it succeeds.  A read of no
\* bytes reads nothing.
C29_ChunksAndSlice ==
    (rd.op \in {"read", "read_full"} /\ res.ctype # "NONE")
        => /\ rd.len = 0 => rd.chunks = <<>> /\ rd.tabread = <<0, 0>>
           /\ (rd.len > 0 /\ res.seek_fail # 1)
                 => /\ rd.tabread[1] % 4 = 0 /\ rd.tabread[2] % 4 = 0
                    /\ ChunksOfSlice
                         = { c \in StartChunk .. EndChunk + 1 :
                               c >= 1 /\ c <= CeilChunks(res.original_size) - 1 }
                    /\ ChunksOfSlice \subseteq 1 .. CeilChunks(res.original_size) - 1
           /\ rd.len > 0
                 => /\ Len(rd.chunks) <= EndChunk - StartChunk + 1
                    /\ \A k \in DOMAIN rd.chunks : rd.chunks[k] = StartChunk + k - 1
                    /\ (rd.ret = SUCCESS /\ ~rd.overflow)
                          => Len(rd.chunks) = EndChunk - StartChunk + 1

\* A successful read inside a resource of three chunks that begins in the
\* second chunk and ends in it: one chunk was processed, and the slice holds
\* the entries of the second and the third chunk.
C29_Witness ==
    /\ rd.op = "read" /\ res.ctype # "NONE" /\ rd.ret = SUCCESS
    /\ CeilChunks(res.original_size) = 3
    /\ rd.chunks = <<1>>
    /\ rd.tabread = <<0, 8>>


(***************************************************************************)
(* sd_set_add_sd() called for one descriptor after another.                *)
(***************************************************************************)
InitSdSet ==
    /\ sds = SdSetEmpty
    /\ scan = ScanIdle /\ xml = XmlIdle /\ ent = EntIdle /\ LateUnused
    /\ ResUnused
    /\ ApplyUnused
    /\ WimUnused
    /\ PoolUnused
    /\ CreateUnused
    /\ SdUnused

\* root->d_inode->i_security_id = sd_set_add_sd(sd_set, sd, ret)
SdSetAdd(descriptor, fail_at) ==
    /\ Len(sds.adds) < MaxSdAdds
    /\ \E got \in {sd_set_add_sd(sds, descriptor, fail_at)} :
          sds' = [got.set EXCEPT !.adds = Append(@, <<descriptor, got.ret>>)]
    /\ UNCHANGED <<varsRes, varsApply, varsWim, varsPool, varsCreate, varsSd,
                   scan, xml, ent, fw, lang>>

NextSdSet ==
    \E descriptor \in SecurityDescriptors, fail_at \in 0 .. 4 :
       SdSetAdd(descriptor, fail_at)

SpecSdSet == InitSdSet /\ [][NextSdSet]_vars

\* The descriptors of the adds that gave an ID, each once, in the order in
\* which they first did.
RECURSIVE FirstAdded(_, _)
FirstAdded(adds, have) ==
    IF adds = <<>> THEN have
    ELSE FirstAdded(Tail(adds),
                    IF adds[1][2] >= 0
                       /\ \A k \in DOMAIN have : have[k] # adds[1][1]
                    THEN Append(have, adds[1][1]) ELSE have)

\* The table as it was before the k-th add.
TableBefore(k) == FirstAdded(SubSeq(sds.adds, 1, k - 1), <<>>)

\* C21: each call of sd_set_add_sd returns, for a descriptor whose bytes the
\* table holds, the ID it has there, and for any other the number of
\* entries there were, or -1; the table holds the descriptors added, each
\* once, at the IDs 0 .. num_entries - 1 in the order of their first
\* appearance, and a call that returned -1 left num_entries as it was.
C21_SecurityIds ==
    /\ sds.descriptors = FirstAdded(sds.adds, <<>>)
    /\ sds.num_entries = Len(sds.descriptors)
    /\ \A i, j \in DOMAIN sds.descriptors :
          i # j => sds.descriptors[i] # sds.descriptors[j]
    /\ \A k \in DOMAIN sds.adds :
          LET before == TableBefore(k)
              after == TableBefore(k + 1)
          IN  IF \E i \in DOMAIN before : before[i] = sds.adds[k][1]
              THEN /\ sds.adds[k][2] >= 0
                   /\ before[sds.adds[k][2] + 1] = sds.adds[k][1]
                   /\ after = before
              ELSE \/ sds.adds[k][2] = Len(before)
                      /\ after = Append(before, sds.adds[k][1])
                   \/ sds.adds[k][2] = 0 - 1 /\ after = before

\* A descriptor was added, another could not be for want of memory, and the
\* first was added again and got the ID it had.
C21_Witness ==
    /\ Len(sds.adds) = 4
    /\ sds.adds[1][2] = 0
    /\ sds.adds[2][2] = 0 - 1
    /\ sds.adds[3][2] = 1
    /\ sds.adds[4] = sds.adds[1]
    /\ sds.num_entries = 2


(***************************************************************************)
(* build_dentry_tree_ntfs() on the volumes and configurations tried.        *)
(***************************************************************************)
InitScan ==
    /\ scan = ScanIdle
    /\ sds = SdSetEmpty /\ xml = XmlIdle /\ ent = EntIdle /\ LateUnused
    /\ ResUnused
    /\ ApplyUnused
    /\ WimUnused
    /\ PoolUnused
    /\ CreateUnused
    /\ SdUnused

\* The steps that can be made to fail for the inode n of a volume.
ScanSteps ==
    {"getxattr_attrib", "new_dentry", "ntfs_attr_sha1sum", "ntfs_inode_open",
     "ntfs_readdir", "set_dentry_dos_name", "getxattr_acl", "sd_set_add_sd"}

\* ret = build_dentry_tree_ntfs_recursive(root_p, NULL, root_ni, path, 1, ...)
ScanVolume(volume, config, verbose, progress_func, fail) ==
    /\ ~scan.called
    /\ scan' = build_dentry_tree_ntfs_recursive(
                   [ScanIdle EXCEPT !.vol = volume, !.config = config,
                                    !.verbose = verbose,
                                    !.progress_func = progress_func,
                                    !.fail = fail, !.called = TRUE,
                                    !.events = <<<<"ntfs_inode_open", 1>>>>],
                   1, TRUE)
    /\ UNCHANGED <<varsRes, varsApply, varsWim, varsPool, varsCreate, varsSd,
                   sds, xml, ent, fw, lang>>

NextScan ==
    \E volume \in ScanVolumes, verbose \in BOOLEAN, progress_func \in BOOLEAN :
       \E config \in {c \in SUBSET DOMAIN volume : Cardinality(c) <= MaxExcluded},
          fail \in {<<0, "none">>} \cup ((DOMAIN volume) \X ScanSteps) :
          ScanVolume(volume, config, verbose, progress_func, fail)

SpecScan == InitScan /\ [][NextScan]_vars

\* The inodes of the volume at or beneath the inode n.
RECURSIVE Beneath(_, _)
Beneath(volume, n) ==
    {n} \cup UNION {Beneath(volume, volume[n].kids[k]) :
                      k \in DOMAIN volume[n].kids}

\* The excluded inodes the capture came to: the root, or an entry of a
\* directory that was read up to it.
CameTo(n) ==
    /\ n \in scan.config
    /\ \/ n = 1
       \/ \E k \in DOMAIN scan.events : scan.events[k] = <<"ntfs_inode_open", n>>
    /\ scan.fail # <<n, "ntfs_inode_open">>

\* The volume without the subtrees the configuration excludes.
Pruned(volume, config) ==
    [n \in DOMAIN volume |->
        [volume[n] EXCEPT !.kids = SelectSeq(@, LAMBDA k : k \notin config)]]

\* The capture of the volume from which the excluded subtrees are gone,
\* with nothing excluded.
ScanOfPruned ==
    build_dentry_tree_ntfs_recursive(
        [ScanIdle EXCEPT !.vol = Pruned(scan.vol, scan.config),
                         !.verbose = scan.verbose,
                         !.progress_func = scan.progress_func,
                         !.fail = scan.fail, !.called = TRUE],
        1, TRUE)

ChildNotOpened(n) ==
    /\ n # 1
    /\ scan.fail = <<n, "ntfs_inode_open">>
    /\ \E k \in DOMAIN scan.events : scan.events[k] = <<"ntfs_inode_open", n>>

\* C35: a capture in which the inode of an entry of a directory could not
\* be opened returns a nonzero error: no entry that could not be opened is
\* left out of a capture that returns 0.
C35_OpenFailureReported ==
    scan.called =>
        \A n \in DOMAIN scan.vol : ChildNotOpened(n) => scan.ret # SUCCESS

RECURSIVE RefsOfImages(_)
RefsOfImages(images) ==
    IF images = <<>> THEN <<>> ELSE images[1] \o RefsOfImages(Tail(images))

\* The hashes of the nondirectory dentries of the images the last export
\* was asked for.
ExportedRefs ==
    IF wim.last.src_image = WIM_ALL_IMAGES
    THEN RefsOfImages(wim.last.src.image_metadata)
    ELSE wim.last.src.image_metadata[wim.last.src_image]

\* The refcnt the destination had for the hash before the last export.
RefcntBefore(hash) ==
    LET a == lookup_resource([table |-> wim.last.table, heap |-> wim.last.heap],
                             hash)
    IN  IF a = NULL THEN 0 ELSE wim.last.heap[a].refcnt

\* C23: after an export that returned 0, every nondirectory dentry of the
\* image that has an entry in the source has one in the destination, of the
\* same hash and the same resource entry, and the refcnt of that entry grew
\* by the number of the dentries of the image that have the hash.
C23_ExportKeepsBlobs ==
    wim.last.op = "export" /\ wim.last.ret = SUCCESS =>
        \A k \in DOMAIN ExportedRefs :
           LET hash == ExportedRefs[k]
               s == wim_lookup_resource(wim.last.src, hash)
               a == lookup_resource(wim, hash)
           IN  s # NULL =>
                  /\ a # NULL
                  /\ wim.heap[a].hash = hash
                  /\ wim.heap[a].resource_entry
                         = wim.last.src.lookup_table[s].resource_entry
                  /\ wim.heap[a].refcnt
                         = RefcntBefore(hash) + CountIn(ExportedRefs, hash)


\* C24: the boot index is 0 or the number of an image; a deletion of image
\* i that returned 0 left one image fewer, the images above i moved down by
\* one and the others where they were, the boot index 0 if it was i, one
\* less if it was above i and else as it was; a deletion of all the images
\* that returned 0 left no image and the boot index 0.
C24_ImageIndexing ==
    /\ wim.boot_idx \in 0 .. Len(wim.image_metadata)
    /\ wim.last.op = "delete" /\ wim.last.ret = SUCCESS =>
          IF wim.last.image = WIM_ALL_IMAGES
          THEN wim.image_metadata = <<>> /\ wim.boot_idx = 0
          ELSE /\ Len(wim.image_metadata) = Len(wim.last.images) - 1
               /\ \A i \in DOMAIN wim.image_metadata :
                     wim.image_metadata[i]
                         = wim.last.images[IF i < wim.last.image THEN i ELSE i + 1]
               /\ wim.boot_idx
                      = IF wim.last.boot_idx = wim.last.image THEN 0
                        ELSE IF wim.last.boot_idx > wim.last.image
                        THEN wim.last.boot_idx - 1
                        ELSE wim.last.boot_idx

\* The first of two images was deleted and the second, the one to boot,
\* is now image 1, and the boot index 1.
C24_Witness ==
    /\ wim.last.op = "delete" /\ wim.last.ret = SUCCESS
    /\ wim.last.image = 1
    /\ Len(wim.last.images) = 2
    /\ wim.last.boot_idx = 2
    /\ wim.boot_idx = 1
    /\ wim.image_metadata = <<wim.last.images[2]>>

(***************************************************************************)
(* set_windows_specific_info() called on an image, in an environment.      *)
(***************************************************************************)
InitXml ==
    /\ xml = XmlIdle
    /\ sds = SdSetEmpty /\ scan = ScanIdle /\ ent = EntIdle /\ LateUnused
    /\ ResUnused
    /\ ApplyUnused
    /\ WimUnused
    /\ PoolUnused
    /\ CreateUnused
    /\ SdUnused

\* ret = set_windows_specific_info(wim)
SetWindowsSpecificInfo(env, image, set) ==
    /\ ~xml.called
    /\ \E got \in {set_windows_specific_info(env, image, set)} :
          xml' = [called |-> TRUE, env |-> env, ctx |-> got.ctx, ret |-> got.ret]
    /\ UNCHANGED <<varsRes, varsApply, varsWim, varsPool, varsCreate, varsSd,
                   sds, scan, ent, fw, lang>>

NextXml ==
    \E env \in XmlEnvironments,
       k32 \in ImageFiles(PeContents),
       software \in ImageFiles(HiveContents),
       system \in ImageFiles(HiveContents),
       set \in {SUCCESS, WIMLIB_ERR_NOMEM, WIMLIB_ERR_INVALID_PARAM} :
        SetWindowsSpecificInfo(env, XmlImage(k32, software, system), set)

SpecXml == InitXml /\ [][NextXml]_vars

\* The calls of the function that ran out of memory.
OutOfMemoryCalls ==
    { k \in 1 .. Len(xml.ctx.calls) :
        xml.ctx.calls[k][3] \in {WIMLIB_ERR_NOMEM, HIVE_OUT_OF_MEMORY} }

\* The flag, once set, stays set.
FlagNeverCleared ==
    \A k \in 1 .. Len(xml.ctx.flags) - 1 :
        xml.ctx.flags[k] => xml.ctx.flags[k + 1]

\* All three files are attempted, in the order kernel32.dll, SOFTWARE, SYSTEM.
AllAttempted ==
    xml.ctx.loads = <<kernel32_dll_path, software_hive_path, system_hive_path>>

\* A file of 100,000,000 bytes or more that could not be read for lack of
\* memory.
HugeFileUnread(k) ==
    /\ xml.ctx.calls[k][1] = "read_blob_into_alloc_buf"
    /\ xml.ctx.image[xml.ctx.calls[k][2]].size >= HugeFileSize

\* C25 as the specification has it: out of memory never aborts the
\* inference: kernel32.dll, the SOFTWARE hive and the SYSTEM hive are all
\* attempted in that order, the flag is never cleared, the function returns
\* the out-of-memory error exactly when some step ran out of memory, and no
\* other failure makes it return an error.
C25_OomReportedAtEnd_Original ==
    xml.called =>
        /\ AllAttempted
        /\ FlagNeverCleared
        /\ xml.ret \in {SUCCESS, WIMLIB_ERR_NOMEM}
        /\ (xml.ret = WIMLIB_ERR_NOMEM) <=> (OutOfMemoryCalls # {})

\* C25: out of memory never aborts the inference: kernel32.dll, the
\* SOFTWARE hive and the SYSTEM hive are all attempted in that order, the
\* flag is never cleared, and no failure but out of memory makes the
\* function return an error; it returns the out-of-memory error exactly
\* when some step ran out of memory other than the reading of a file of
\* 100,000,000 bytes or more, which is skipped like a missing file.
C25_OomReportedAtEnd ==
    xml.called =>
        /\ AllAttempted
        /\ FlagNeverCleared
        /\ xml.ret \in {SUCCESS, WIMLIB_ERR_NOMEM}
        /\ (xml.ret = WIMLIB_ERR_NOMEM)
               <=> (\E k \in OutOfMemoryCalls : ~HugeFileUnread(k))

\* The first step ran out of memory, the later files were still read and
\* searched, and the error came at the end.
C25_Witness ==
    /\ xml.called
    /\ xml.ret = WIMLIB_ERR_NOMEM
    /\ 1 \in OutOfMemoryCalls
    /\ \E k \in 1 .. Len(xml.ctx.calls) :
          /\ xml.ctx.calls[k][1] = "hive_get_string"
          /\ xml.ctx.calls[k][2] = "InstallLanguage"
          /\ xml.ctx.calls[k][3] = HIVE_OK

\* C26: with DEBUG_XML_INFO not in the environment, the inference prints no
\* warning at all.
C26_SilentWithoutDebug ==
    (xml.called /\ "DEBUG_XML_INFO" \notin xml.env) => xml.ctx.warnings = <<>>

(***************************************************************************)
(* get_resource_entry() called on one record after another.                *)
(***************************************************************************)
InitEntry ==
    /\ ent = EntIdle
    /\ sds = SdSetEmpty /\ scan = ScanIdle /\ xml = XmlIdle /\ LateUnused
    /\ ResUnused
    /\ ApplyUnused
    /\ WimUnused
    /\ PoolUnused
    /\ CreateUnused
    /\ SdUnused

\* p = get_resource_entry(p, &entry)
GetResourceEntry(p) ==
    /\ \E got \in {get_resource_entry(p)} :
          ent' = [called |-> TRUE, p |-> p, entry |-> got.entry,
                  warnings |-> got.warnings, next |-> got.next]
    /\ UNCHANGED <<varsRes, varsApply, varsWim, varsPool, varsCreate, varsSd,
                   sds, scan, xml, fw, lang>>

NextEntry == \E p \in DiskEntries : GetResourceEntry(p)

SpecEntry == InitEntry /\ [][NextEntry]_vars

\* The k-th byte of a 64-bit number, the least significant being the first.
NumberByte(v, k) ==
    LET digit == v[4 - ((k - 1) \div 2)]
    IN  IF k % 2 = 1 THEN digit % 256 ELSE digit \div 256

\* A 64-bit number is below 2^62.
Below62(v) == v[1] < 16384

\* C28: the 24 bytes are taken as the stored size (7 bytes), the flags (1
\* byte), the offset (8 bytes) and the original size (8 bytes), least
\* significant byte first; the offset and the original size got are below
\* 2^62, being the numbers read with their top two bits cleared, and a
\* warning is raised for each of the two exactly when one of its top two
\* bits was set.
C28_ResourceEntryParsed ==
    ent.called =>
        /\ \A k \in 1 .. 7 : NumberByte(ent.entry.size, k) = ent.p[k]
        /\ NumberByte(ent.entry.size, 8) = 0
        /\ ent.entry.flags = ent.p[8]
        /\ \A k \in 1 .. 7 :
              /\ NumberByte(ent.entry.offset, k) = ent.p[8 + k]
              /\ NumberByte(ent.entry.original_size, k) = ent.p[16 + k]
        /\ NumberByte(ent.entry.offset, 8) = ent.p[16] % 64
        /\ NumberByte(ent.entry.original_size, 8) = ent.p[24] % 64
        /\ Below62(ent.entry.offset)
        /\ Below62(ent.entry.original_size)
        /\ ("Truncating offset in resource entry" \in Range(ent.warnings))
               <=> ent.p[16] >= 64
        /\ ("Truncating original_size in resource entry" \in Range(ent.warnings))
               <=> ent.p[24] >= 64
        /\ ent.next = 25

\* A record whose offset has bit 63 set and whose original size has bit 62
\* set has been read.
C28_Witness ==
    /\ ent.called
    /\ ent.p[16] = 128
    /\ ent.p[24] = 64
    /\ Len(ent.warnings) = 2

(***************************************************************************)
(* full_write() called on a buffer, and the writes it makes.               *)
(***************************************************************************)
InitFw ==
    /\ fw = FwIdle /\ lang = LangIdle
    /\ sds = SdSetEmpty /\ scan = ScanIdle /\ xml = XmlIdle /\ ent = EntIdle
    /\ ResUnused
    /\ ApplyUnused
    /\ WimUnused
    /\ PoolUnused
    /\ CreateUnused
    /\ SdUnused

FwStep(next) ==
    /\ fw' = next
    /\ UNCHANGED <<varsRes, varsApply, varsWim, varsPool, varsCreate, varsSd,
                   sds, scan, xml, ent, lang>>

\* ret = full_write(fd, buf, len) is called.
FullWriteCall(n) ==
    /\ fw.pc = "idle"
    /\ FwStep([FwIdle EXCEPT !.pc = "loop", !.n = n])

\* while (total != n) is false: return total.
FullWriteDone ==
    /\ fw.pc = "loop" /\ fw.total = fw.n
    /\ FwStep(FwReturn(fw))

\* ret = write(fd, p, n) wrote r bytes; total += ret; p += ret.
FullWriteWrote(r) ==
    /\ fw.pc = "loop" /\ fw.total # fw.n
    /\ r \in 1 .. WriteCount(fw)
    /\ fw.total + r <= MaxTotal
    /\ FwStep(WriteBytes(fw, r))

\* ret < 0 with errno == EINTR: continue.
FullWriteInterrupted ==
    /\ fw.pc = "loop" /\ fw.total # fw.n
    /\ fw.eintr < MaxEintr
    /\ FwStep([fw EXCEPT !.eintr = @ + 1])

\* ret < 0 with another errno: break, return total.
FullWriteFailed ==
    /\ fw.pc = "loop" /\ fw.total # fw.n
    /\ FwStep(FwReturn(fw))

NextFw ==
    \/ \E n \in 0 .. MaxBuf : FullWriteCall(n)
    \/ FullWriteDone
    \/ \E r \in 1 .. MaxBuf : FullWriteWrote(r)
    \/ FullWriteInterrupted
    \/ FullWriteFailed

SpecFw == InitFw /\ [][NextFw]_vars

\* C31: the descriptor never receives anything but the bytes of buf, in
\* order and each once: what it has received is the first bytes of buf, as
\* many as the function has counted; when the function returns n all n
\* bytes were written, and what it returns is never more than n.
C31_FullWriteExact ==
    /\ fw.written = [k \in 1 .. Len(fw.written) |-> k]
    /\ Len(fw.written) = fw.total
    /\ fw.total <= fw.n
    /\ fw.pc = "done"
          => /\ fw.ret <= fw.n
             /\ fw.status = SUCCESS <=> fw.written = [k \in 1 .. fw.n |-> k]

(***************************************************************************)
(* language_id_to_name() called on an id.                                  *)
(***************************************************************************)
InitLang ==
    /\ fw = FwIdle /\ lang = LangIdle
    /\ sds = SdSetEmpty /\ scan = ScanIdle /\ xml = XmlIdle /\ ent = EntIdle
    /\ ResUnused
    /\ ApplyUnused
    /\ WimUnused
    /\ PoolUnused
    /\ CreateUnused
    /\ SdUnused

\* language_name = language_id_to_name(language_id)
LanguageIdToName(id) ==
    /\ ~lang.called
    /\ \E got \in {language_id_to_name(id)} :
          lang' = [called |-> TRUE, id |-> id, found |-> got.found,
                   name |-> got.name, probes |-> got.probes,
                   given_up |-> got.given_up]
    /\ UNCHANGED <<varsRes, varsApply, varsWim, varsPool, varsCreate, varsSd,
                   sds, scan, xml, ent, fw>>

NextLang ==
    /\ ~lang.called
    /\ \E id \in 0 .. MaxLanguageId : LanguageIdToName(id)

SpecLang == InitLang /\ [][NextLang]_vars

\* The ids of the table and the name recorded for each.
LanguageIds == {language_id_map[k][1] : k \in DOMAIN language_id_map}

RecordedName ==
    [id \in LanguageIds |->
        language_id_map[CHOOSE k \in DOMAIN language_id_map :
                            language_id_map[k][1] = id][2]]

\* The table is sorted strictly ascending by id.
TableAscending ==
    \A k \in 1 .. Len(language_id_map) - 1 :
        language_id_map[k][1] < language_id_map[k + 1][1]

\* C37: the table is sorted strictly ascending by id; for every id the
\* search ends, after at most 9 entries; an id of the table gets the name
\* recorded for it, any other id gets NULL.
C37_LanguageLookup ==
    /\ TableAscending
    /\ lang.called
          => /\ ~lang.given_up
             /\ lang.probes <= 9
             /\ lang.found <=> lang.id \in LanguageIds
             /\ lang.found => lang.name = RecordedName[lang.id]

\* The last id of the table was asked for and its name returned.
C37_Witness ==
    /\ lang.called
    /\ lang.id = language_id_map[Len(language_id_map)][1]
    /\ lang.found
    /\ lang.name = 3138

====
